---- MODULE Spec2Model ----
(***************************************************************************)
(* Model of the manuscript parser (src/parser.py): extension dispatch,     *)
(* the format extractors, the block splitter, the chapter heading          *)
(* classifier and the assembler; of the cover validator and the cover      *)
(* correction (src/cover_validator.py); of the packaging pipeline          *)
(* (src/pipeline.py), of the web handlers that call them (src/app.py) and  *)
(* of the chapter grouping of the exporters (src/exporters.py).            *)
(*                                                                         *)
(* A Python str is a sequence of one-character strings.  The characters    *)
(* are those of Chars; each operator on text works character by character  *)
(* as the regular expression or str method it models does.                 *)
(***************************************************************************)
EXTENDS Naturals, Sequences, FiniteSets, TLC

VARIABLES
  pc,         \* where the call is: "call", "classify", "returned", "raised";
              \* "probe", "probed" for a call of the classifier alone
  path,       \* the file name given to parse_manuscript
  title,      \* the title and author given to parse_manuscript
  author,
  file,       \* what the file holds and what the host provides
  extractor,  \* the extractor the dispatch ran, "none" before
  fileRead,   \* the file was opened
  chunks,     \* the chunks the splitter kept, with what each one appended
  lines,      \* the extractor's return value
  result,     \* the Manuscript returned
  error,      \* the error raised, "none" if none
  line,       \* the argument of a classifier call
  heading,    \* its return value
  cpc,        \* where the cover calls are: "validate", "validated", "corrected",
              \* "correct_raised", "revalidated"
  image,      \* the cover file given to validate_cover_image
  role,       \* the role given with it
  validation, \* the CoverValidationResult of that file
  corrected,  \* what auto_correct_cover_to_kdp did with that file
  revalidation, \* the CoverValidationResult of the file the correction wrote
  apc,        \* where the web handler is: "format", "front", "back", "package",
              \* "packaging", "leave", "unwind"; "preview", "preview_cover",
              \* "preview_leave", "preview_unwind"; "done"
  request,    \* the files and the form fields of the request
  response,   \* the status and the error of the response
  exc,        \* the exception that is leaving the with statement
  front_cover, \* the paths _save_optional_image returned: "None", "original",
  back_cover,  \* "corrected"
  data,       \* the bytes read for the response
  ppc,        \* where create_production_package is: "start", "parsing",
              \* "returned", "raised"
  package,    \* its arguments
  archive,    \* the archive it made
  dirs,       \* the temporary directories that exist
  trace,      \* the steps of the request so far, in their order
  gpc,        \* where a call of _group_blocks_by_chapter is: "group", "grouped"
  manuscript_blocks, \* its argument
  chapter_buckets    \* its return value

parserVars == <<pc, path, title, author, file, extractor, fileRead, chunks, lines,
                result, error, line, heading>>

coverVars == <<cpc, image, role, validation, corrected, revalidation>>

appVars == <<apc, request, response, exc, front_cover, back_cover, data>>

pipeVars == <<ppc, package, archive>>

exportVars == <<gpc, manuscript_blocks, chapter_buckets>>

otherVars == <<coverVars, appVars, pipeVars, dirs, trace, exportVars>>

vars == <<parserVars, coverVars, appVars, pipeVars, dirs, trace, exportVars>>

(***************************************************************************)
(* Characters                                                              *)
(***************************************************************************)
UpperLetters == <<"A", "B", "C", "D", "E", "F", "G", "H", "I", "J", "K", "L", "M",
                  "N", "O", "P", "Q", "R", "S", "T", "U", "V", "W", "X", "Y", "Z">>

LowerLetters == <<"a", "b", "c", "d", "e", "f", "g", "h", "i", "j", "k", "l", "m",
                  "n", "o", "p", "q", "r", "s", "t", "u", "v", "w", "x", "y", "z">>

Digits == {"0", "1", "2", "3", "4", "5", "6", "7", "8", "9"}

Range(s) == {s[i] : i \in DOMAIN s}

Letters == Range(UpperLetters) \cup Range(LowerLetters)

\* the characters of str.isspace and of the regex class \s
Spaces == {" ", "\t", "\n", "\r"}

\* the characters of the model's texts
Chars == Letters \cup Digits \cup Spaces
           \cup {"&", "'", "-", ".", "/", ":", ";", "<", ">", "\\", "_", "{", "}"}

NonSpaces == Chars \ Spaces

IsSpace(c) == c \in Spaces

IsUpperChar(c) == c \in Range(UpperLetters)

IsLowerChar(c) == c \in Range(LowerLetters)

IsDigit(c) == c \in Digits

\* the regex class \w (and so [\w\d]): letters, digits and the underscore
IsWordChar(c) == IsUpperChar(c) \/ IsLowerChar(c) \/ IsDigit(c) \/ c = "_"

\* str.lower on one character
LowerChar(c) ==
  IF IsUpperChar(c)
    THEN LowerLetters[CHOOSE i \in DOMAIN UpperLetters : UpperLetters[i] = c]
    ELSE c

\* str.lower
lower(s) == [i \in DOMAIN s |-> LowerChar(s[i])]

\* s[from:] in Python, with from counted from 1
Drop(s, n) == IF n >= Len(s) THEN <<>> ELSE SubSeq(s, n + 1, Len(s))

Take(s, n) == IF n >= Len(s) THEN s ELSE SubSeq(s, 1, n)

\* the number of characters of s, from index i on, before the first one that
\* is not in the class C: what a greedy C* takes at i
RECURSIVE CountLeading(_, _, _)
CountLeading(C, s, i) ==
  IF i <= Len(s) /\ s[i] \in C THEN 1 + CountLeading(C, s, i + 1) ELSE 0

\* str.strip(): leading and trailing whitespace removed
RECURSIVE rstrip(_)
rstrip(s) ==
  IF s # <<>> /\ IsSpace(s[Len(s)]) THEN rstrip(SubSeq(s, 1, Len(s) - 1)) ELSE s

strip(s) == rstrip(Drop(s, CountLeading(Spaces, s, 1)))

\* re.sub(r"\s+", " ", text): every maximal run of whitespace becomes one space
RECURSIVE CollapseSpace(_)
CollapseSpace(s) ==
  IF s = <<>> THEN <<>>
  ELSE IF IsSpace(s[1])
    THEN <<" ">> \o CollapseSpace(Drop(s, CountLeading(Spaces, s, 1)))
    ELSE <<s[1]>> \o CollapseSpace(Tail(s))

\* the normalizer without its .strip()
NormalizeWithoutStrip(text) == CollapseSpace(text)

_normalize_space(text) == strip(CollapseSpace(text))

\* str.split(): the maximal runs of non-whitespace characters
RECURSIVE split(_)
split(s) ==
  LET t == Drop(s, CountLeading(Spaces, s, 1))
      n == CountLeading(NonSpaces, t, 1)
  IN  IF t = <<>> THEN <<>> ELSE <<Take(t, n)>> \o split(Drop(t, n))

\* str.isupper(): at least one cased character and no lower-case one
isupper(s) ==
  /\ \E i \in DOMAIN s : IsUpperChar(s[i])
  /\ \A i \in DOMAIN s : ~IsLowerChar(s[i])

(***************************************************************************)
(* Chapter heading classifier                                              *)
(***************************************************************************)
Keywords == {<<"c", "h", "a", "p", "t", "e", "r">>, <<"b", "o", "o", "k">>,
             <<"p", "a", "r", "t">>}

\* \s+ then [\w\d]+ (or \w+) matched at the front of s; both are greedy and
\* the two classes are disjoint, so the longest run of whitespace is the
\* only one that can be followed by a word character
MatchSpacesThenWord(s) ==
  LET n == CountLeading(Spaces, s, 1)
  IN  n >= 1 /\ n < Len(s) /\ IsWordChar(s[n + 1])

\* CHAPTER_RE compiled without re.IGNORECASE
CHAPTER_RE_CaseSensitive(ln) ==
  \E k \in Keywords :
    /\ Len(ln) >= Len(k)
    /\ Take(ln, Len(k)) = k
    /\ MatchSpacesThenWord(Drop(ln, Len(k)))

\* CHAPTER_RE.match(line): ^(chapter|book|part)\s+[\w\d]+ with re.IGNORECASE
CHAPTER_RE(ln) ==
  \E k \in Keywords :
    /\ Len(ln) >= Len(k)
    /\ lower(Take(ln, Len(k))) = k
    /\ MatchSpacesThenWord(Drop(ln, Len(k)))

MaxLabelDigits == 3

\* re.match(r"^\d{1,3}[.: -]\s+\w+", line): the regex backtracks over the
\* number of digits taken
NUMBERED_RE(ln) ==
  \E d \in 1..MaxLabelDigits :
    /\ Len(ln) > d
    /\ \A i \in 1..d : IsDigit(ln[i])
    /\ ln[d + 1] \in {".", ":", " ", "-"}
    /\ MatchSpacesThenWord(Drop(ln, d + 1))

MaxHeadingWords == 9

MaxUpperLen == 80

\* the classifier with the upper-case test moved before the word count
HeadingUpperBeforeWordCount(ln) ==
  IF CHAPTER_RE(ln) THEN TRUE
  ELSE IF isupper(ln) /\ Len(ln) <= MaxUpperLen THEN TRUE
  ELSE IF Len(split(ln)) > MaxHeadingWords THEN FALSE
  ELSE IF NUMBERED_RE(ln) THEN TRUE
  ELSE FALSE

_looks_like_chapter_heading(ln) ==
  IF CHAPTER_RE(ln) THEN TRUE
  ELSE IF Len(split(ln)) > MaxHeadingWords THEN FALSE
  ELSE IF isupper(ln) /\ Len(ln) <= MaxUpperLen THEN TRUE
  ELSE IF NUMBERED_RE(ln) THEN TRUE
  ELSE FALSE

(***************************************************************************)
(* Block splitter                                                          *)
(***************************************************************************)
Max(S) == CHOOSE x \in S : \A y \in S : y <= x

\* re.split(r"\n\s*\n", raw): a separator starts at a newline and, \s* being
\* greedy, runs to the last newline of the whitespace that follows it; a
\* newline with no second newline in that whitespace separates nothing
RECURSIVE re_split_blank(_, _)
re_split_blank(s, cur) ==
  IF s = <<>> THEN <<cur>>
  ELSE IF s[1] = "\n"
    THEN LET n  == CountLeading(Spaces, s, 2)
             js == {j \in 2..(1 + n) : s[j] = "\n"}
         IN  IF js # {}
               THEN <<cur>> \o re_split_blank(Drop(s, Max(js)), <<>>)
               ELSE re_split_blank(Tail(s), Append(cur, s[1]))
    ELSE re_split_blank(Tail(s), Append(cur, s[1]))

\* str.splitlines(): lines end at \n, \r or \r\n; no empty last line
RECURSIVE splitlines(_, _)
splitlines(s, cur) ==
  IF s = <<>> THEN (IF cur = <<>> THEN <<>> ELSE <<cur>>)
  ELSE IF s[1] = "\r" /\ Len(s) >= 2 /\ s[2] = "\n"
    THEN <<cur>> \o splitlines(Drop(s, 2), <<>>)
  ELSE IF s[1] \in {"\n", "\r"}
    THEN <<cur>> \o splitlines(Tail(s), <<>>)
  ELSE splitlines(Tail(s), Append(cur, s[1]))

\* sep.join(parts)
RECURSIVE join(_, _)
join(sep, parts) ==
  IF parts = <<>> THEN <<>>
  ELSE IF Len(parts) = 1 THEN parts[1]
  ELSE parts[1] \o sep \o join(sep, Tail(parts))

RECURSIVE Flatten(_)
Flatten(ss) == IF ss = <<>> THEN <<>> ELSE ss[1] \o Flatten(Tail(ss))

RECURSIVE SelectNonEmpty(_)
SelectNonEmpty(ss) ==
  IF ss = <<>> THEN <<>>
  ELSE IF ss[1] = <<>> THEN SelectNonEmpty(Tail(ss))
  ELSE <<ss[1]>> \o SelectNonEmpty(Tail(ss))

\* the list comprehension of the splitter's loop: the normalized lines of a
\* chunk that are not empty
SurvivingLines(chunk) ==
  LET phys == splitlines(chunk, <<>>)
  IN  SelectNonEmpty([i \in DOMAIN phys |-> _normalize_space(phys[i])])

\* the loop body without the append of the lines after a heading
ChunkBlocksHeadingOnly(ls) ==
  IF ls = <<>> THEN <<>>
  ELSE IF _looks_like_chapter_heading(ls[1]) THEN <<ls[1]>>
  ELSE <<_normalize_space(join(<<" ">>, ls))>>

\* the strings one chunk appends to blocks (the body of the splitter's loop)
ChunkBlocks(ls) ==
  IF ls = <<>> THEN <<>>
  ELSE IF _looks_like_chapter_heading(ls[1])
    THEN <<ls[1]>> \o (IF Len(ls) > 1
                         THEN <<_normalize_space(join(<<" ">>, Tail(ls)))>>
                         ELSE <<>>)
    ELSE <<_normalize_space(join(<<" ">>, ls))>>

\* the chunks of raw that are not skipped, each with its surviving lines and
\* the strings it appends
SplitChunks(raw) ==
  LET pieces == re_split_blank(raw, <<>>)
      all    == [i \in DOMAIN pieces |-> SurvivingLines(pieces[i])]
      kept   == SelectNonEmpty(all)
  IN  [i \in DOMAIN kept |-> [lines |-> kept[i], out |-> ChunkBlocks(kept[i])]]

ChunkOutputs(cs) == Flatten([i \in DOMAIN cs |-> cs[i].out])

_split_text_to_blocks(raw) == ChunkOutputs(SplitChunks(raw))

\* Block(kind, text) for one line
ClassifyLine(ln) ==
  [kind |-> IF _looks_like_chapter_heading(ln) THEN "chapter" ELSE "paragraph",
   text |-> ln]

_classify_blocks(ls) == [i \in DOMAIN ls |-> ClassifyLine(ls[i])]

(***************************************************************************)
(* Format conversions                                                      *)
(***************************************************************************)
\* the first index >= from at which s holds c, or 0
RECURSIVE IndexFrom(_, _, _)
IndexFrom(s, c, from) ==
  IF from > Len(s) THEN 0
  ELSE IF s[from] = c THEN from
  ELSE IndexFrom(s, c, from + 1)

\* s holds pat at index i, letter case ignored (the (?i) flag)
StartsWithAt(s, i, pat) ==
  /\ i + Len(pat) - 1 <= Len(s)
  /\ \A k \in DOMAIN pat : LowerChar(s[i + k - 1]) = pat[k]

\* the first index >= from at which s holds pat (case ignored), or 0
RECURSIVE FindFrom(_, _, _)
FindFrom(s, pat, from) ==
  IF from + Len(pat) - 1 > Len(s) THEN 0
  ELSE IF StartsWithAt(s, from, pat) THEN from
  ELSE FindFrom(s, pat, from + 1)

ScriptTags == {<<"s", "c", "r", "i", "p", "t">>, <<"s", "t", "y", "l", "e">>}

\* the index of the last character of a match of <(script|style).*?>.*?</\1>
\* that starts at index i of s, or 0: the lazy .*? stop at the first > after
\* the tag name and at the first closing tag after that >
ScriptMatchEnd(s, i) ==
  IF s[i] # "<" THEN 0
  ELSE LET ends == {LET g == IndexFrom(s, ">", i + 1 + Len(t))
                        c == IF g = 0 THEN 0
                             ELSE FindFrom(s, <<"<", "/">> \o t \o <<">">>, g + 1)
                    IN  IF StartsWithAt(s, i + 1, t) /\ c # 0
                          THEN c + Len(t) + 2 ELSE 0 : t \in ScriptTags}
       IN  Max(ends)

BlockTags == {<<"p">>, <<"d", "i", "v">>, <<"h", "1">>, <<"h", "2">>, <<"h", "3">>,
              <<"h", "4">>, <<"h", "5">>, <<"h", "6">>, <<"l", "i">>,
              <<"s", "e", "c", "t", "i", "o", "n">>,
              <<"a", "r", "t", "i", "c", "l", "e">>, <<"b", "r">>, <<"h", "r">>,
              <<"t", "r">>}

\* the index of the last character of a match of </?(p|div|...)[^>]*> that
\* starts at index i of s, or 0
BlockTagMatchEnd(s, i) ==
  IF s[i] # "<" THEN 0
  ELSE LET j == IF i < Len(s) /\ s[i + 1] = "/" THEN i + 2 ELSE i + 1
           ends == {IF StartsWithAt(s, j, t)
                      THEN IndexFrom(s, ">", j + Len(t)) ELSE 0 : t \in BlockTags}
       IN  Max(ends)

\* the index of the last character of a match of <[^>]+> at index i, or 0
AnyTagMatchEnd(s, i) ==
  IF s[i] = "<" /\ i < Len(s) /\ s[i + 1] # ">" THEN IndexFrom(s, ">", i + 2) ELSE 0

\* the character references of html.unescape that the model's texts use
HtmlEntities == {[ref |-> <<"&", "l", "t", ";">>, char |-> "<"],
                 [ref |-> <<"&", "a", "m", "p", ";">>, char |-> "&"]}

\* html.unescape(s); a & that starts no known reference is kept
RECURSIVE unescape(_, _)
unescape(s, i) ==
  IF i > Len(s) THEN <<>>
  ELSE LET hit == {e \in HtmlEntities :
                     /\ i + Len(e.ref) - 1 <= Len(s)
                     /\ SubSeq(s, i, i + Len(e.ref) - 1) = e.ref}
       IN  IF hit # {}
             THEN LET e == CHOOSE x \in hit : TRUE
                  IN  <<e.char>> \o unescape(s, i + Len(e.ref))
             ELSE <<s[i]>> \o unescape(s, i + 1)

IsHexDigit(c) == IsDigit(c) \/ LowerChar(c) \in {"a", "b", "c", "d", "e", "f"}

\* str.replace("\\par", "\n") as a match-end operator (case matters)
ParMatchEnd(s, i) ==
  IF i + 3 <= Len(s) /\ SubSeq(s, i, i + 3) = <<"\\", "p", "a", "r">> THEN i + 3 ELSE 0

\* \\'[0-9a-fA-F]{2}
HexEscapeMatchEnd(s, i) ==
  IF /\ i + 3 <= Len(s)
     /\ s[i] = "\\" /\ s[i + 1] = "'"
     /\ IsHexDigit(s[i + 2]) /\ IsHexDigit(s[i + 3])
    THEN i + 3 ELSE 0

\* \\[a-zA-Z]+-?\d* ?  (every part greedy; none can give back)
ControlWordMatchEnd(s, i) ==
  IF s[i] # "\\" THEN 0
  ELSE LET a == CountLeading(Letters, s, i + 1)
           h == IF i + a + 1 <= Len(s) /\ s[i + a + 1] = "-" THEN 1 ELSE 0
           d == CountLeading(Digits, s, i + a + h + 1)
           e == i + a + h + d
           b == IF e + 1 <= Len(s) /\ s[e + 1] = " " THEN 1 ELSE 0
       IN  IF a = 0 THEN 0 ELSE e + b

BraceMatchEnd(s, i) == IF s[i] \in {"{", "}"} THEN i ELSE 0

\* the index of the last character of the match of a pattern that starts at
\* index i of s, or 0 when the pattern does not match there
MatchEnd(pattern, s, i) ==
  CASE pattern = "script" -> ScriptMatchEnd(s, i)
    [] pattern = "block_tag" -> BlockTagMatchEnd(s, i)
    [] pattern = "any_tag" -> AnyTagMatchEnd(s, i)
    [] pattern = "par" -> ParMatchEnd(s, i)
    [] pattern = "hex_escape" -> HexEscapeMatchEnd(s, i)
    [] pattern = "control_word" -> ControlWordMatchEnd(s, i)
    [] pattern = "brace" -> BraceMatchEnd(s, i)

\* re.sub(pattern, repl, s) and str.replace: the matches are taken leftmost
\* first and do not overlap; i is where the scan stands
RECURSIVE re_sub(_, _, _, _)
re_sub(pattern, repl, s, i) ==
  IF i > Len(s) THEN <<>>
  ELSE LET e == MatchEnd(pattern, s, i)
       IN  IF e # 0 THEN repl \o re_sub(pattern, repl, s, e + 1)
           ELSE <<s[i]>> \o re_sub(pattern, repl, s, i + 1)

_html_to_text(raw) ==
  LET scrubbed1 == re_sub("script", <<" ">>, raw, 1)
      scrubbed2 == re_sub("block_tag", <<"\n">>, scrubbed1, 1)
      scrubbed3 == re_sub("any_tag", <<" ">>, scrubbed2, 1)
  IN  unescape(scrubbed3, 1)

_rtf_to_text(raw) ==
  LET t1 == re_sub("par", <<"\n">>, raw, 1)
      t2 == re_sub("hex_escape", <<" ">>, t1, 1)
      t3 == re_sub("control_word", <<" ">>, t2, 1)
  IN  re_sub("brace", <<" ">>, t3, 1)

(***************************************************************************)
(* Paths and archive entry names                                           *)
(***************************************************************************)
\* the last index of c in s, or 0
RECURSIVE LastIndex(_, _)
LastIndex(s, c) ==
  IF s = <<>> THEN 0
  ELSE IF s[Len(s)] = c THEN Len(s)
  ELSE LastIndex(SubSeq(s, 1, Len(s) - 1), c)

\* PurePath.name: the final component
PathName(p) == Drop(p, LastIndex(p, "/"))

\* PurePath.suffix: from the last dot of the name, unless the name starts or
\* ends with it
PathSuffix(p) ==
  LET name == PathName(p)
      i    == LastIndex(name, ".")
  IN  IF 1 < i /\ i < Len(name) THEN Drop(name, i - 1) ELSE <<>>

Punctuation == {[c |-> "\t", o |-> 9], [c |-> "\n", o |-> 10], [c |-> "\r", o |-> 13],
                [c |-> " ", o |-> 32], [c |-> "&", o |-> 38], [c |-> "'", o |-> 39],
                [c |-> "-", o |-> 45], [c |-> ".", o |-> 46], [c |-> "/", o |-> 47],
                [c |-> ":", o |-> 58], [c |-> ";", o |-> 59], [c |-> "<", o |-> 60],
                [c |-> ">", o |-> 62], [c |-> "\\", o |-> 92], [c |-> "_", o |-> 95],
                [c |-> "{", o |-> 123], [c |-> "}", o |-> 125]}

DigitChars == <<"0", "1", "2", "3", "4", "5", "6", "7", "8", "9">>

\* ord(c): the code point, by which Python orders strings
ord(c) ==
  IF IsUpperChar(c) THEN 64 + (CHOOSE i \in DOMAIN UpperLetters : UpperLetters[i] = c)
  ELSE IF IsLowerChar(c) THEN 96 + (CHOOSE i \in DOMAIN LowerLetters : LowerLetters[i] = c)
  ELSE IF IsDigit(c) THEN 47 + (CHOOSE i \in DOMAIN DigitChars : DigitChars[i] = c)
  ELSE (CHOOSE p \in Punctuation : p.c = c).o

\* a < b for two str
RECURSIVE StrLess(_, _)
StrLess(a, b) ==
  IF b = <<>> THEN FALSE
  ELSE IF a = <<>> THEN TRUE
  ELSE IF a[1] = b[1] THEN StrLess(Tail(a), Tail(b))
  ELSE ord(a[1]) < ord(b[1])

\* one name put into an ascending list, after the names equal to it
RECURSIVE Insert(_, _)
Insert(sortedNames, n) ==
  IF sortedNames = <<>> THEN <<n>>
  ELSE IF StrLess(n, sortedNames[1]) THEN <<n>> \o sortedNames
  ELSE <<sortedNames[1]>> \o Insert(Tail(sortedNames), n)

\* sorted(names)
RECURSIVE sorted(_)
sorted(names) ==
  IF names = <<>> THEN <<>>
  ELSE Insert(sorted(SubSeq(names, 1, Len(names) - 1)), names[Len(names)])

(***************************************************************************)
(* Extractors                                                              *)
(***************************************************************************)
\* the loop of _parse_docx over the paragraphs of the document
RECURSIVE DocxLines(_)
DocxLines(paragraphs) ==
  IF paragraphs = <<>> THEN <<>>
  ELSE LET text == strip(paragraphs[1])
       IN  (IF text # <<>> THEN <<_normalize_space(text)>> ELSE <<>>)
             \o DocxLines(Tail(paragraphs))

InnerExts == {<<".", "h", "t", "m", "l">>, <<".", "h", "t", "m">>, <<".", "t", "x", "t">>,
              <<".", "m", "d">>, <<".", "r", "t", "f">>}

HtmlExts == {<<".", "h", "t", "m", "l">>, <<".", "h", "t", "m">>}

\* ZipFile.namelist(): the names in the order of the central directory
namelist(entries) == [i \in DOMAIN entries |-> entries[i].name]

\* ZipFile.read(name): NameToInfo keeps, for a name, the last entry bearing it
zf_read(entries, name) ==
  entries[Max({i \in DOMAIN entries : entries[i].name = name})].data

\* what one name of the archive adds to blocks: the chunks of its text
ZipEntryChunks(entries, name) ==
  LET ext == lower(PathSuffix(name))
      raw == zf_read(entries, name)
  IN  IF name # <<>> /\ name[Len(name)] = "/" THEN <<>>
      ELSE IF ext \notin InnerExts THEN <<>>
      ELSE IF ext \in HtmlExts THEN SplitChunks(_html_to_text(raw))
      ELSE IF ext = <<".", "r", "t", "f">> THEN SplitChunks(_rtf_to_text(raw))
      ELSE SplitChunks(raw)

\* the loop of _parse_zip over sorted(zf.namelist())
ZipChunks(entries) ==
  LET names == sorted(namelist(entries))
  IN  Flatten([i \in DOMAIN names |-> ZipEntryChunks(entries, names[i])])

\* the loop of _parse_epub over the document items
EpubChunks(items) ==
  Flatten([i \in DOMAIN items |-> SplitChunks(_html_to_text(items[i]))])

\* "\n\n".join(pages).strip()
PdfRaw(pages) == strip(join(<<"\n", "\n">>, pages))

(***************************************************************************)
(* Inputs                                                                  *)
(***************************************************************************)
\* the strings made of at most n pieces of F, one after the other
RECURSIVE Strings(_, _)
Strings(F, n) ==
  IF n = 0 THEN {<<>>}
  ELSE LET shorter == Strings(F, n - 1)
       IN  shorter \cup {t \o f : t \in shorter, f \in F}

\* the sequences of at most n elements of S
RECURSIVE SeqsUpTo(_, _)
SeqsUpTo(S, n) ==
  IF n = 0 THEN {<<>>}
  ELSE LET shorter == SeqsUpTo(S, n - 1)
       IN  shorter \cup {Append(t, x) : t \in shorter, x \in S}

\* what a file can hold: read as text, as the paragraphs, pages or items a
\* library finds in it, or as the entries of an archive
File(text, parts, entries, damaged, soffice) ==
  [text |-> text, parts |-> parts, entries |-> entries, damaged |-> damaged,
   soffice |-> soffice]

MaxLines == 3

TextLines == {<<>>, <<"A">>, <<"b">>, <<"1", ".">>}

LineSeps == {<<"\n">>, <<"\n", " ", "\r", "\n">>, <<" ">>}

\* texts of at most n lines, a separator between two lines
RECURSIVE Texts(_)
Texts(n) ==
  IF n = 1 THEN TextLines
  ELSE LET shorter == Texts(n - 1)
       IN  shorter \cup {t \o s \o l : t \in shorter, s \in LineSeps, l \in TextLines}

SmallTexts == {<<>>, <<" ", "\n">>, <<"A", "\r", "A">>,
               <<"b", "\r", "\n", "\r", "\n", "P", "a", "r", "t", " ", "1", "\n", "b">>}

MaxHtmlFrags == 3

HtmlFrags == {<<"<", "p", ">">>, <<"<", "b", ">">>, <<"b">>,
              <<"<", "S", "c", "r", "i", "p", "t", ">">>,
              <<"<", "/", "s", "c", "r", "i", "p", "t", ">">>,
              <<"&", "l", "t", ";">>}

MaxRtfFrags == 3

RtfFrags == {<<"\\", "p", "a", "r">>, <<"\\", "b", "0", " ">>,
             <<"\\", "'", "e", "9">>, <<"{">>, <<"b">>, <<"d">>}

MaxParts == 2

ParagraphTexts == {<<>>, <<" ">>, <<"A">>, <<" ", "b", "\t", "b", " ">>,
                   <<"P", "a", "r", "t", " ", "1">>, <<"b", "\n", "b">>}

PageTexts == {<<>>, <<"A", "\n", "b">>, <<" ", "b", " ">>, <<"\n", "\n", "b">>}

ItemTexts == {<<>>, <<"<", "p", ">", "A", "<", "/", "p", ">", "b">>,
              <<"<", "b", ">", "b", "<", "/", "b", ">">>,
              <<"<", "s", "t", "y", "l", "e", ">", "b", "<", "/", "s", "t", "y", "l", "e", ">">>,
              <<"&", "l", "t", ";", "b">>}

MaxEntries == 2

\* entries of an archive: a name and the bytes stored under it
Entries == {[name |-> <<"a", ".", "t", "x", "t">>, data |-> <<>>],
            [name |-> <<"a", ".", "t", "x", "t">>, data |-> <<"A">>],
            [name |-> <<"a", ".", "t", "x", "t">>, data |-> <<"b", "\n", "\n", "b">>],
            [name |-> <<"B", ".", "M", "D">>, data |-> <<"A">>],
            [name |-> <<"c", ".", "h", "t", "m">>, data |-> <<"<", "p", ">", "b">>],
            [name |-> <<"d", ".", "r", "t", "f">>, data |-> <<"b", "\\", "p", "a", "r", " ", "d">>],
            [name |-> <<"e", ".", "p", "n", "g">>, data |-> <<"A">>],
            [name |-> <<"f", ".", "t", "x", "t", "/">>, data |-> <<>>],
            [name |-> <<".", "t", "x", "t">>, data |-> <<"A">>]}

TextPath == <<"m", ".", "t", "x", "t">>

OtherTextPaths == {<<"m", ".", "m", "d">>, <<"m", ".", "T", "X", "T">>,
                   <<"m", ".", "M", "d">>}

HtmlPaths == {<<"m", ".", "h", "t", "m", "l">>, <<"m", ".", "H", "t", "m">>}

RtfPath == <<"m", ".", "r", "t", "f">>

DocxPath == <<"m", ".", "d", "o", "c", "x">>

DocPath == <<"m", ".", "d", "o", "c">>

PdfPath == <<"m", ".", "p", "d", "f">>

EpubPath == <<"m", ".", "E", "P", "U", "B">>

ZipPath == <<"m", ".", "z", "i", "p">>

RejectedPaths == {<<"m", ".", "m", "o", "b", "i">>,
                  <<"m", ".", "M", "O", "B", "I">>, <<"m", ".", "k", "p", "f">>,
                  <<"m", ".", "K", "p", "f">>, <<"m", ".", "p", "n", "g">>,
                  <<"m", ".", "t", "x", "t", ".">>, <<"m">>,
                  <<".", "t", "x", "t">>}

Titles == {<<" ", "T", " ">>}

\* whether LibreOffice is installed and what its conversion leaves behind
SofficeStates == {"missing", "fails", "no_output", "converted"}

MaxHeadFrags == 2

HeadFrags == {<<"P", "a", "r", "t">>, <<" ">>, <<"A">>, <<"b">>, <<"1", ".">>,
              <<"1", "1", "1">>, <<"_">>}

TailWords == {<<" ", "A">>, <<" ", "b">>, <<" ", "_">>,
              <<"A", "A", "A", "A", "A", "A", "A", "A">>}

MaxTail == 10

\* w repeated n times
RECURSIVE Repeat(_, _)
Repeat(w, n) == IF n = 0 THEN <<>> ELSE w \o Repeat(w, n - 1)

\* the lines the classifier is probed with: a head of a few pieces, then one
\* word repeated, up to lines of more than nine words or eighty characters
ProbeLines ==
  LET heads == Strings(HeadFrags, MaxHeadFrags)
  IN  heads \cup {h \o Repeat(w, n) : h \in heads, w \in TailWords,
                                      n \in {1, MaxTail - 1, MaxTail}}

(***************************************************************************)
(* Cover images (src/cover_validator.py)                                   *)
(*                                                                         *)
(* An image file is what Image.open and stat read from it: whether a       *)
(* decoder identifies it, its format name, colour mode, pixel size, DPI    *)
(* metadata (<<>> when absent) and length in bytes.  An optional field of  *)
(* a result is <<>> for None and <<v>> for a value.  A DPI is a whole      *)
(* number; a ratio is compared as a fraction of whole numbers.             *)
(***************************************************************************)
KDP_ALLOWED_FORMATS == {"JPEG", "TIFF"}

KDP_IDEAL_WIDTH == 1600

KDP_IDEAL_HEIGHT == 2560

KDP_MIN_WIDTH == 625

KDP_MIN_HEIGHT == 1000

KDP_MAX_WIDTH == 10000

KDP_MAX_HEIGHT == 10000

\* 1.6, height / width, as the fraction 8 / 5
KDP_MIN_RATIO == <<8, 5>>

KDP_REQUIRED_DPI == 72

KDP_MAX_SIZE_MB == 50

\* the height under which the HD warning is given
HD_HEIGHT == 2500

\* bytes in the megabyte of size_mb
MB == 1024 * 1024

ImageFile(identified, format, mode, size, dpi, st_size) ==
  [identified |-> identified, format |-> format, mode |-> mode, size |-> size,
   dpi |-> dpi, st_size |-> st_size]

abs(a, b) == IF a >= b THEN a - b ELSE b - a

\* fmt not in KDP_ALLOWED_FORMATS
FormatError(img) == img.format \notin KDP_ALLOWED_FORMATS

\* the mutation of TooSmall that also refuses the minimum itself
TooSmallAtMinimum(img) ==
  img.size[1] <= KDP_MIN_WIDTH \/ img.size[2] <= KDP_MIN_HEIGHT

TooSmall(img) == img.size[1] < KDP_MIN_WIDTH \/ img.size[2] < KDP_MIN_HEIGHT

TooLarge(img) == img.size[1] > KDP_MAX_WIDTH \/ img.size[2] > KDP_MAX_HEIGHT

\* the mutation of RatioError that also refuses the ratio 1.6 itself
RatioErrorAtMinimum(img) ==
  IF img.size[1] = 0 THEN TRUE
  ELSE KDP_MIN_RATIO[2] * img.size[2] <= KDP_MIN_RATIO[1] * img.size[1]

\* ratio = (height / width) if width else 0.0; ratio < KDP_MIN_RATIO
RatioError(img) ==
  IF img.size[1] = 0 THEN TRUE
  ELSE KDP_MIN_RATIO[2] * img.size[2] < KDP_MIN_RATIO[1] * img.size[1]

DpiMissing(img) == img.dpi = <<>>

\* the else branch of the DPI test: an axis more than 1 away from 72
DpiValueError(img) ==
  /\ img.dpi # <<>>
  /\ \/ abs(img.dpi[1], KDP_REQUIRED_DPI) > 1
     \/ abs(img.dpi[2], KDP_REQUIRED_DPI) > 1

\* size_mb >= KDP_MAX_SIZE_MB
FileSizeError(img) == img.st_size >= KDP_MAX_SIZE_MB * MB

ModeError(img) == img.mode # "RGB"

When(cond, item) == IF cond THEN <<item>> ELSE <<>>

\* the mutation of CoverErrors that stops at the first error
CoverErrorsFirstOnly(img) ==
  IF FormatError(img) THEN <<"format">>
  ELSE IF TooSmall(img) THEN <<"too_small">>
  ELSE IF TooLarge(img) THEN <<"too_large">>
  ELSE IF RatioError(img) THEN <<"ratio">>
  ELSE IF DpiMissing(img) THEN <<"dpi_missing">>
  ELSE IF DpiValueError(img) THEN <<"dpi_value">>
  ELSE IF FileSizeError(img) THEN <<"file_size">>
  ELSE When(ModeError(img), "color_mode")

\* the errors list of a decoded image, each append in the order of the code
CoverErrors(img) ==
  When(FormatError(img), "format")
  \o When(TooSmall(img), "too_small")
  \o When(TooLarge(img), "too_large")
  \o When(RatioError(img), "ratio")
  \o When(DpiMissing(img), "dpi_missing")
  \o When(DpiValueError(img), "dpi_value")
  \o When(FileSizeError(img), "file_size")
  \o When(ModeError(img), "color_mode")

\* the warnings list of a decoded image
CoverWarnings(img) ==
  When(img.size[1] # KDP_IDEAL_WIDTH \/ img.size[2] # KDP_IDEAL_HEIGHT,
       "ideal_dimensions")
  \o When(img.size[2] < HD_HEIGHT, "hd_height")

CoverValidationResult(valid, errors, warnings, width, height, fmt, mode, dpi, size_mb) ==
  [valid |-> valid, errors |-> errors, warnings |-> warnings, width |-> width,
   height |-> height, fmt |-> fmt, mode |-> mode, dpi |-> dpi,
   size_mb |-> size_mb]

NoValidation ==
  CoverValidationResult(FALSE, <<>>, <<>>, <<>>, <<>>, <<>>, <<>>, <<>>, <<>>)

\* the result for a file no decoder identifies
Unreadable ==
  CoverValidationResult(FALSE, <<"unreadable">>, <<>>, <<>>, <<>>, <<>>, <<>>,
                        <<>>, <<>>)

\* the mutation of validate_cover_image whose valid also wants no warning
ValidateWarningsCount(img) ==
  IF ~img.identified THEN Unreadable
  ELSE CoverValidationResult(CoverErrors(img) = <<>> /\ CoverWarnings(img) = <<>>,
                             CoverErrors(img), CoverWarnings(img),
                             <<img.size[1]>>, <<img.size[2]>>, <<img.format>>,
                             <<img.mode>>, img.dpi, <<img.st_size>>)

\* the mutation of validate_cover_image that goes on to the checks with a
\* file no decoder identifies
ValidateChecksUnreadable(img) ==
  CoverValidationResult(IF img.identified THEN CoverErrors(img) = <<>> ELSE FALSE,
                        IF img.identified THEN CoverErrors(img)
                        ELSE <<"unreadable">> \o CoverErrors(img),
                        CoverWarnings(img),
                        <<img.size[1]>>, <<img.size[2]>>, <<img.format>>,
                        <<img.mode>>, img.dpi, <<img.st_size>>)

\* validate_cover_image: size_mb is kept in bytes
validate_cover_image(img) ==
  IF ~img.identified THEN Unreadable
  ELSE CoverValidationResult(CoverErrors(img) = <<>>,
                             CoverErrors(img), CoverWarnings(img),
                             <<img.size[1]>>, <<img.size[2]>>, <<img.format>>,
                             <<img.mode>>, img.dpi, <<img.st_size>>)

\* round(a / b), halves to the even neighbour
round(a, b) ==
  LET q == a \div b
      r == a % b
  IN  IF 2 * r < b THEN q
      ELSE IF 2 * r > b THEN q + 1
      ELSE IF q % 2 = 0 THEN q ELSE q + 1

\* the size ImageOps.contain resizes an image of size <<w, h>> to: the
\* largest size of the same aspect ratio inside the ideal size, larger
\* than the image if the image is smaller
contain(size) ==
  LET w == size[1]
      h == size[2]
  IN  IF w * KDP_IDEAL_HEIGHT = h * KDP_IDEAL_WIDTH
        THEN <<KDP_IDEAL_WIDTH, KDP_IDEAL_HEIGHT>>
      ELSE IF w * KDP_IDEAL_HEIGHT > h * KDP_IDEAL_WIDTH
        THEN <<KDP_IDEAL_WIDTH, round(h * KDP_IDEAL_WIDTH, w)>>
      ELSE <<round(w * KDP_IDEAL_HEIGHT, h), KDP_IDEAL_HEIGHT>>

NoImage == ImageFile(FALSE, "", "", <<0, 0>>, <<>>, 0)

NoCorrection == [raised |-> "none", fitted |-> <<0, 0>>, at |-> <<0, 0>>, out |-> NoImage]

\* auto_correct_cover_to_kdp: what it raises, the size of the fitted
\* artwork, where it is pasted and the file it writes, of st_size bytes.
\* Image.open raises for a file no decoder identifies, the division in
\* contain for a height of 0, resize for a fitted size with a 0 in it.
auto_correct_cover_to_kdp(img, st_size) ==
  IF ~img.identified
    THEN [NoCorrection EXCEPT !.raised = "UnidentifiedImageError"]
  ELSE IF img.size[2] = 0
    THEN [NoCorrection EXCEPT !.raised = "ZeroDivisionError"]
  ELSE LET fitted == contain(img.size)
       IN  IF fitted[1] < 1 \/ fitted[2] < 1
             THEN [NoCorrection EXCEPT !.raised = "ValueError", !.fitted = fitted]
           ELSE [raised |-> "none",
                 fitted |-> fitted,
                 at |-> <<(KDP_IDEAL_WIDTH - fitted[1]) \div 2,
                          (KDP_IDEAL_HEIGHT - fitted[2]) \div 2>>,
                 out |-> ImageFile(TRUE, "JPEG", "RGB",
                                   <<KDP_IDEAL_WIDTH, KDP_IDEAL_HEIGHT>>,
                                   <<KDP_REQUIRED_DPI, KDP_REQUIRED_DPI>>, st_size)]

\* the cover files the model validates and corrects
CoverFormats == {"JPEG", "TIFF", "PNG", ""}

CoverModes == {"RGB", "RGBA"}

CoverSizes ==
  {<<625, 1000>>, <<624, 1000>>, <<625, 999>>, <<1600, 2560>>, <<1600, 2499>>,
   <<800, 1200>>, <<800, 1280>>, <<6250, 10000>>, <<6250, 10001>>, <<0, 1000>>,
   <<4000, 1>>, <<1, 10001>>}

CoverDpis == {<<>>, <<72, 72>>, <<96, 96>>, <<73, 71>>, <<72, 74>>, <<70, 72>>}

CoverFileSizes == {2 * MB, KDP_MAX_SIZE_MB * MB - 1, KDP_MAX_SIZE_MB * MB}

\* a file no decoder identifies
Undecodable == ImageFile(FALSE, "", "", <<0, 0>>, <<>>, 2 * MB)

CoverFiles ==
  {ImageFile(TRUE, f, m, s, d, b) :
     f \in CoverFormats, m \in CoverModes, s \in CoverSizes, d \in CoverDpis,
     b \in CoverFileSizes}
  \cup {Undecodable}

\* lengths of the JPEG file the correction writes
CorrectedFileSizes == {MB, 8 * MB}

Roles == {"front", "back"}

(***************************************************************************)
(* parse_manuscript                                                        *)
(***************************************************************************)
\* the if/elif chain of parse_manuscript over the lower-cased suffix
Dispatch(suffix) ==
  IF suffix = <<".", "d", "o", "c", "x">> THEN "docx"
  ELSE IF suffix = <<".", "d", "o", "c">> THEN "doc"
  ELSE IF suffix \in {<<".", "t", "x", "t">>, <<".", "m", "d">>} THEN "text"
  ELSE IF suffix \in {<<".", "h", "t", "m", "l">>, <<".", "h", "t", "m">>} THEN "html"
  ELSE IF suffix = <<".", "z", "i", "p">> THEN "zip"
  ELSE IF suffix = <<".", "r", "t", "f">> THEN "rtf"
  ELSE IF suffix = <<".", "p", "d", "f">> THEN "pdf"
  ELSE IF suffix = <<".", "e", "p", "u", "b">> THEN "epub"
  ELSE IF suffix = <<".", "m", "o", "b", "i">> THEN "mobi"
  ELSE IF suffix = <<".", "k", "p", "f">> THEN "kpf"
  ELSE "unsupported"

\* the chain run on the suffix as written, without .lower()
RouteCaseSensitive(p) == Dispatch(PathSuffix(p))

\* suffix = path.suffix.lower(), then the chain
Route(p) == Dispatch(lower(PathSuffix(p)))

NoManuscript == [title |-> <<>>, author |-> <<>>, blocks |-> <<>>]

NoFile == File(<<>>, <<>>, <<>>, FALSE, "missing")

\* the calls of parse_manuscript the model makes
ParseInputs ==
  {[path |-> TextPath, file |-> File(t, <<>>, <<>>, FALSE, "missing")] :
     t \in Texts(MaxLines)}
  \cup {[path |-> p, file |-> File(t, <<>>, <<>>, FALSE, "missing")] :
          p \in OtherTextPaths \cup RejectedPaths, t \in SmallTexts}
  \cup {[path |-> p, file |-> File(t, <<>>, <<>>, FALSE, "missing")] :
          p \in HtmlPaths, t \in Strings(HtmlFrags, MaxHtmlFrags)}
  \cup {[path |-> RtfPath, file |-> File(t, <<>>, <<>>, FALSE, "missing")] :
          t \in Strings(RtfFrags, MaxRtfFrags)}
  \cup {[path |-> DocxPath, file |-> File(<<>>, ps, <<>>, FALSE, "missing")] :
          ps \in SeqsUpTo(ParagraphTexts, MaxParts)}
  \cup {[path |-> DocPath, file |-> File(<<>>, ps, <<>>, FALSE, so)] :
          ps \in SeqsUpTo(ParagraphTexts, MaxParts), so \in SofficeStates}
  \cup {[path |-> PdfPath, file |-> File(<<>>, ps, <<>>, FALSE, "missing")] :
          ps \in SeqsUpTo(PageTexts, MaxParts)}
  \cup {[path |-> EpubPath, file |-> File(<<>>, ps, <<>>, FALSE, "missing")] :
          ps \in SeqsUpTo(ItemTexts, MaxParts)}
  \cup {[path |-> ZipPath, file |-> File(<<>>, <<>>, es, FALSE, "missing")] :
          es \in SeqsUpTo(Entries, MaxEntries)}
  \cup {[path |-> p, file |-> File(<<>>, <<>>, <<>>, TRUE, "missing")] :
          p \in {DocxPath, PdfPath, EpubPath, ZipPath}}

(***************************************************************************)
(* The packaging pipeline (src/pipeline.py)                                *)
(*                                                                         *)
(* An archive is the files make_archive packs: the copy of a KPF source,   *)
(* the exports, the manifest and the reports.  The exporters are taken to  *)
(* return.                                                                 *)
(***************************************************************************)
\* PROFILES: the output type of each profile key
PROFILES ==
  [kindle_epub |-> "epub", universal_epub |-> "epub", docx_master |-> "docx",
   print_pdf |-> "pdf"]

\* selected: the known keys in the order given, kindle_epub if there is none
RECURSIVE KnownProfiles(_)
KnownProfiles(keys) ==
  IF keys = <<>> THEN <<>>
  ELSE (IF keys[1] \in DOMAIN PROFILES THEN <<keys[1]>> ELSE <<>>)
         \o KnownProfiles(Tail(keys))

SelectedProfiles(keys) ==
  IF KnownProfiles(keys) = <<>> THEN <<"kindle_epub">> ELSE KnownProfiles(keys)

KpfSuffix == <<".", "k", "p", "f">>

\* the mutation of IsKpfSource that compares the suffix as it is written
IsKpfSourceAsWritten(p) == PathSuffix(p) = KpfSuffix

\* manuscript_path.suffix.lower() == ".kpf"
IsKpfSource(p) == lower(PathSuffix(p)) = KpfSuffix

\* one step of a request: the operation, the cover role or the profile it
\* is about, the file it is about, and whether it succeeded
Event(op, who, target, ok) == [op |-> op, role |-> who, target |-> target, ok |-> ok]

Package(manuscript_path, content, t, a, profile_keys, front, back, extra_reports) ==
  [manuscript_path |-> manuscript_path, file |-> content, title |-> t, author |-> a,
   profile_keys |-> profile_keys, front_cover |-> front, back_cover |-> back,
   extra_reports |-> extra_reports]

NoPackage == Package(<<>>, NoFile, <<>>, <<>>, <<>>, "None", "None", FALSE)

NoArchive == [made |-> FALSE, files |-> {}, source |-> NoFile, source_name |-> <<>>]

\* the reports both branches write
ReportFiles(p) ==
  {<<"report", "README_FORMATTING.txt">>, <<"report", "KDP_COMPLIANCE_REPORT.txt">>}
  \cup (IF p.extra_reports THEN {<<"report", "COVER_VALIDATION_REPORT.txt">>} ELSE {})

ExportEvents(keys) == [i \in DOMAIN keys |-> Event("export", keys[i], PROFILES[keys[i]], TRUE)]

ExportFiles(keys) == {<<"export", keys[i]>> : i \in DOMAIN keys}

(***************************************************************************)
(* The web handlers (src/app.py)                                           *)
(***************************************************************************)
ALLOWED_MANUSCRIPT_EXT ==
  {<<".", "d", "o", "c">>,
   <<".", "d", "o", "c", "x">>,
   <<".", "k", "p", "f">>,
   <<".", "e", "p", "u", "b">>,
   <<".", "h", "t", "m", "l">>,
   <<".", "h", "t", "m">>,
   <<".", "z", "i", "p">>,
   <<".", "t", "x", "t">>,
   <<".", "r", "t", "f">>,
   <<".", "p", "d", "f">>,
   <<".", "m", "d">>}

ALLOWED_IMAGE_EXT ==
  {<<".", "j", "p", "g">>,
   <<".", "j", "p", "e", "g">>,
   <<".", "p", "n", "g">>,
   <<".", "w", "e", "b", "p">>,
   <<".", "t", "i", "f">>,
   <<".", "t", "i", "f", "f">>}

MobiSuffix == <<".", "m", "o", "b", "i">>

\* the characters secure_filename strips from both ends of a name
NameEdges == {".", "_"}

RECURSIVE rstripEdges(_)
rstripEdges(s) ==
  IF s # <<>> /\ s[Len(s)] \in NameEdges THEN rstripEdges(SubSeq(s, 1, Len(s) - 1))
  ELSE s

\* secure_filename on a name of letters, digits, dots and underscores
secure_filename(name) == rstripEdges(Drop(name, CountLeading(NameEdges, name, 1)))

\* PurePath.stem: the name without its suffix
PathStem(p) == Take(PathName(p), Len(PathName(p)) - Len(PathSuffix(p)))

Upload(filename, content) == [filename |-> filename, content |-> content]

NoUpload == Upload(<<>>, NoImage)

CoverOutcome(raised, err, p, events) ==
  [raised |-> raised, error |-> err, path |-> p, events |-> events]

\* the mutation of _save_optional_image that returns the original of a
\* cover that is not valid when the correction is off
SaveOptionalImageAcceptsInvalid(upload, prefix, auto_fix_covers, st_size) ==
  IF upload.filename = <<>> THEN CoverOutcome("none", "none", "None", <<>>)
  ELSE IF lower(PathSuffix(secure_filename(upload.filename))) \notin ALLOWED_IMAGE_EXT
    THEN CoverOutcome("ValueError", "cover_type", "None", <<>>)
  ELSE
    LET first == validate_cover_image(upload.content)
        fix   == auto_correct_cover_to_kdp(upload.content, st_size)
        again == validate_cover_image(fix.out)
        e1    == <<Event("save", prefix, "original", TRUE),
                   Event("validate", prefix, "original", first.valid)>>
        e2    == e1 \o <<Event("auto_correct", prefix, "original", fix.raised = "none")>>
        e3    == e2 \o <<Event("validate", prefix, "corrected", again.valid)>>
    IN  IF first.valid \/ ~auto_fix_covers THEN CoverOutcome("none", "none", "original", e1)
        ELSE IF fix.raised # "none" THEN CoverOutcome(fix.raised, fix.raised, "None", e2)
        ELSE IF ~again.valid
          THEN CoverOutcome("ValueError", "cover_correction_failed", "None", e3)
        ELSE CoverOutcome("none", "none", "corrected", e3)

\* _save_optional_image: what it raises, the path it returns and the steps
\* it took, in their order
_save_optional_image(upload, prefix, auto_fix_covers, st_size) ==
  IF upload.filename = <<>> THEN CoverOutcome("none", "none", "None", <<>>)
  ELSE IF lower(PathSuffix(secure_filename(upload.filename))) \notin ALLOWED_IMAGE_EXT
    THEN CoverOutcome("ValueError", "cover_type", "None", <<>>)
  ELSE
    LET first == validate_cover_image(upload.content)
        fix   == auto_correct_cover_to_kdp(upload.content, st_size)
        again == validate_cover_image(fix.out)
        e1    == <<Event("save", prefix, "original", TRUE),
                   Event("validate", prefix, "original", first.valid)>>
        e2    == e1 \o <<Event("auto_correct", prefix, "original", fix.raised = "none")>>
        e3    == e2 \o <<Event("validate", prefix, "corrected", again.valid)>>
    IN  IF first.valid THEN CoverOutcome("none", "none", "original", e1)
        ELSE IF ~auto_fix_covers THEN CoverOutcome("ValueError", "cover_invalid", "None", e1)
        ELSE IF fix.raised # "none" THEN CoverOutcome(fix.raised, fix.raised, "None", e2)
        ELSE IF ~again.valid
          THEN CoverOutcome("ValueError", "cover_correction_failed", "None", e3)
        ELSE CoverOutcome("none", "none", "corrected", e3)

Response(status, err) == [status |-> status, error |-> err]

NoResponse == Response("none", "none")

\* the class of the exception parse_manuscript raises with each error
ErrorClass(err) == IF err = "library_error" THEN "Exception" ELSE "ValueError"

\* the except clauses of format_manuscript: 400 for a ValueError, 500 for
\* any other exception
FormatErrorStatus(class) == IF class = "ValueError" THEN "400" ELSE "500"

Request(handler, manuscript, content, t, a, keys, front, back, auto_fix_covers) ==
  [handler |-> handler, manuscript |-> manuscript, file |-> content, title |-> t,
   author |-> a, profile_keys |-> keys, front_cover |-> front, back_cover |-> back,
   auto_fix_covers |-> auto_fix_covers]

NoRequest == Request("none", <<>>, NoFile, <<>>, <<>>, <<>>, NoUpload, NoUpload, FALSE)

\* the uploads the model sends
ValidCover ==
  ImageFile(TRUE, "JPEG", "RGB", <<KDP_IDEAL_WIDTH, KDP_IDEAL_HEIGHT>>,
            <<KDP_REQUIRED_DPI, KDP_REQUIRED_DPI>>, 2 * MB)

SmallCover == ImageFile(TRUE, "PNG", "RGBA", <<800, 1200>>, <<>>, 2 * MB)

WideCover == ImageFile(TRUE, "JPEG", "RGB", <<4000, 1>>, <<96, 96>>, 2 * MB)

CoverUploads ==
  {NoUpload,
   Upload(<<"c", ".", "g", "i", "f">>, ValidCover),
   Upload(<<"c", ".", "j", "p", "g">>, ValidCover),
   Upload(<<"c", ".", "P", "N", "G">>, SmallCover),
   Upload(<<"c", ".", "t", "i", "f">>, Undecodable),
   Upload(<<"c", ".", "w", "e", "b", "p">>, WideCover)}

BackCoverUploads ==
  {NoUpload, Upload(<<"c", ".", "j", "p", "g">>, ValidCover), Upload(<<"c", ".", "P", "N", "G">>, SmallCover)}

ProfileKeyLists == {<<>>, <<"docx_master", "bogus", "print_pdf">>}

ManuscriptUploads ==
  {[name |-> <<>>, file |-> NoFile],
   [name |-> <<"m", ".", "m", "o", "b", "i">>, file |-> NoFile],
   [name |-> <<"m", ".", "p", "n", "g">>, file |-> NoFile],
   [name |-> <<".", "t", "x", "t">>, file |-> File(<<"A">>, <<>>, <<>>, FALSE, "missing")],
   [name |-> <<"m", ".", "K", "p", "f">>, file |-> File(<<"A">>, <<>>, <<>>, FALSE, "missing")],
   [name |-> <<"m", ".", "t", "x", "t", ".">>, file |-> File(<<"A">>, <<>>, <<>>, FALSE, "missing")],
   [name |-> <<"m", ".", "t", "x", "t">>, file |-> File(<<>>, <<>>, <<>>, FALSE, "missing")],
   [name |-> <<"m", ".", "d", "o", "c", "x">>, file |-> File(<<>>, <<>>, <<>>, TRUE, "missing")],
   [name |-> <<"m", ".", "d", "o", "c">>, file |-> File(<<>>, <<<<"A">>>>, <<>>, FALSE, "converted")],
   [name |-> <<"m", ".", "d", "o", "c">>, file |-> File(<<>>, <<>>, <<>>, FALSE, "fails")]}

FormTitles == {<<>>} \cup Titles

FormatRequests ==
  {Request("format", m.name, m.file, t, <<>>, k, f, b, x) :
     m \in ManuscriptUploads, t \in FormTitles, k \in ProfileKeyLists,
     f \in CoverUploads, b \in BackCoverUploads, x \in BOOLEAN}

PreviewRequests ==
  {Request("preview", <<>>, NoFile, <<>>, <<>>, <<>>, f, NoUpload, x) :
     f \in CoverUploads, x \in BOOLEAN}

\* direct calls of create_production_package
PackageCalls ==
  {Package(p, File(t, <<>>, <<>>, FALSE, "missing"), <<"T">>, <<"A">>, k, "None",
           "None", FALSE) :
     p \in {<<"m", ".", "k", "p", "f">>, <<"m", ".", "K", "p", "f">>, <<"m", ".", "K", "P", "F">>, <<"m", ".", "t", "x", "t">>, <<"m", ".", "m", "o", "b", "i">>, <<"m">>},
     t \in {<<>>, <<"A">>}, k \in ProfileKeyLists}

UnknownAuthor == <<"U", "n", "k", "n", "o", "w", "n", " ", "A", "u", "t", "h", "o", "r">>

(***************************************************************************)
(* The chapter grouping of the exporters (src/exporters.py)                *)
(***************************************************************************)
DefaultChapterTitle == <<"C", "h", "a", "p", "t", "e", "r", " ", "1">>

Bucket(t, paragraphs) == [title |-> t, paragraphs |-> paragraphs]

\* the locals of _group_blocks_by_chapter before its loop
GroupStart ==
  [buckets |-> <<>>, current_title |-> DefaultChapterTitle,
   current_paragraphs |-> <<>>, seen_chapter |-> FALSE]

\* one turn of the loop
GroupStep(g, block) ==
  IF block.kind = "chapter"
    THEN [buckets |-> IF g.current_paragraphs # <<>> \/ g.seen_chapter
                        THEN Append(g.buckets,
                                    Bucket(g.current_title, g.current_paragraphs))
                        ELSE g.buckets,
          current_title |-> block.text,
          current_paragraphs |-> <<>>,
          seen_chapter |-> TRUE]
    ELSE [g EXCEPT !.current_paragraphs = Append(@, block.text)]

RECURSIVE GroupLoop(_, _)
GroupLoop(g, bs) == IF bs = <<>> THEN g ELSE GroupLoop(GroupStep(g, bs[1]), Tail(bs))

\* _group_blocks_by_chapter: the loop, then the append after it
_group_blocks_by_chapter(bs) ==
  LET g == GroupLoop(GroupStart, bs)
  IN  IF g.current_paragraphs # <<>> \/ g.buckets = <<>>
        THEN Append(g.buckets, Bucket(g.current_title, g.current_paragraphs))
        ELSE g.buckets

\* the block lists the model groups
MaxBlocks == 3

BlockTexts == {<<"A">>, <<"b">>}

GroupInputs ==
  SeqsUpTo({[kind |-> k, text |-> t] : k \in {"chapter", "paragraph"}, t \in BlockTexts},
           MaxBlocks)

\* no call of parse_manuscript or of the classifier
ParserIdle ==
  /\ pc = "idle"
  /\ path = <<>>
  /\ file = NoFile
  /\ title = <<>>
  /\ author = <<>>
  /\ line = <<>>

\* no call of the cover functions
CoverIdle ==
  /\ cpc = "idle"
  /\ image = NoImage
  /\ role = ""

\* no request
AppIdle ==
  /\ apc = "idle"
  /\ request = NoRequest

\* no call of create_production_package
PipelineIdle ==
  /\ ppc = "idle"
  /\ package = NoPackage

NoException == [class |-> "none", error |-> "none"]

\* no call of _group_blocks_by_chapter
ExportIdle ==
  /\ gpc = "idle"
  /\ manuscript_blocks = <<>>

Init ==
  /\ extractor = "none"
  /\ fileRead = FALSE
  /\ chunks = <<>>
  /\ lines = <<>>
  /\ result = NoManuscript
  /\ error = "none"
  /\ heading = FALSE
  /\ validation = NoValidation
  /\ corrected = NoCorrection
  /\ revalidation = NoValidation
  /\ response = NoResponse
  /\ exc = NoException
  /\ front_cover = "None"
  /\ back_cover = "None"
  /\ data = "none"
  /\ archive = NoArchive
  /\ dirs = {}
  /\ trace = <<>>
  /\ chapter_buckets = <<>>
  /\ \/ /\ pc = "call"
        /\ \E in \in ParseInputs : path = in.path /\ file = in.file
        /\ title \in Titles
        /\ author \in Titles
        /\ line = <<>>
        /\ CoverIdle /\ AppIdle /\ PipelineIdle /\ ExportIdle
     \/ /\ pc = "probe"
        /\ line \in ProbeLines
        /\ path = <<>>
        /\ file = NoFile
        /\ title = <<>>
        /\ author = <<>>
        /\ CoverIdle /\ AppIdle /\ PipelineIdle /\ ExportIdle
     \/ /\ cpc = "validate"
        /\ image \in CoverFiles
        /\ role \in Roles
        /\ ParserIdle /\ AppIdle /\ PipelineIdle /\ ExportIdle
     \/ /\ apc = "format"
        /\ request \in FormatRequests
        /\ ParserIdle /\ CoverIdle /\ PipelineIdle /\ ExportIdle
     \/ /\ apc = "preview"
        /\ request \in PreviewRequests
        /\ ParserIdle /\ CoverIdle /\ PipelineIdle /\ ExportIdle
     \/ /\ ppc = "start"
        /\ package \in PackageCalls
        /\ ParserIdle /\ CoverIdle /\ AppIdle /\ ExportIdle
     \/ /\ gpc = "group"
        /\ manuscript_blocks \in GroupInputs
        /\ ParserIdle /\ CoverIdle /\ AppIdle /\ PipelineIdle

\* an extractor returns: its lines go on to the classification
Extracted(name, cs, ls) ==
  /\ pc' = "classify"
  /\ extractor' = name
  /\ fileRead' = TRUE
  /\ chunks' = cs
  /\ lines' = ls
  /\ UNCHANGED <<path, title, author, file, result, error, line, heading>>
  /\ UNCHANGED otherVars

\* a raise leaves parse_manuscript at once
Raised(name, read, err) ==
  /\ pc' = "raised"
  /\ extractor' = name
  /\ fileRead' = read
  /\ error' = err
  /\ UNCHANGED <<path, title, author, file, chunks, lines, result, line, heading>>
  /\ UNCHANGED otherVars

\* an extractor built on the splitter returns the strings its chunks appended
Split(name, cs) == Extracted(name, cs, ChunkOutputs(cs))

_parse_docx ==
  /\ pc = "call" /\ Route(path) = "docx"
  /\ IF file.damaged THEN Raised("docx", TRUE, "library_error")
     ELSE Extracted("docx", <<>>, DocxLines(file.parts))

\* _parse_doc up to the with statement: without soffice it raises, with it
\* the temporary directory is made
_parse_doc ==
  /\ pc = "call" /\ Route(path) = "doc"
  /\ IF file.soffice = "missing" THEN Raised("doc", FALSE, "doc_needs_soffice")
     ELSE /\ pc' = "doc_convert"
          /\ extractor' = "doc"
          /\ dirs' = dirs \cup {"doc_convert_"}
          /\ UNCHANGED <<path, title, author, file, fileRead, chunks, lines, result,
                         error, line, heading>>
          /\ UNCHANGED <<exportVars, coverVars, appVars, pipeVars, trace>>

\* the body of the with statement: the conversion, the search for its
\* output and _parse_docx on it
DocConvert ==
  /\ pc = "doc_convert"
  /\ fileRead' = TRUE
  /\ IF file.soffice = "converted"
       THEN /\ pc' = "doc_leave"
            /\ lines' = DocxLines(file.parts)
       ELSE /\ pc' = "doc_unwind"
            /\ UNCHANGED lines
  /\ UNCHANGED <<path, title, author, file, extractor, chunks, result, error, line,
                 heading>>
  /\ UNCHANGED otherVars

\* the with statement is left, by the return or by the exception of the
\* conversion or of the missing output
DocLeave ==
  /\ pc \in {"doc_leave", "doc_unwind"}
  /\ dirs' = dirs \ {"doc_convert_"}
  /\ IF pc = "doc_leave"
       THEN /\ pc' = "classify"
            /\ UNCHANGED error
       ELSE /\ pc' = "raised"
            /\ error' = IF file.soffice = "fails" THEN "library_error"
                        ELSE "doc_conversion_failed"
  /\ UNCHANGED <<path, title, author, file, extractor, fileRead, chunks, lines, result,
                 line, heading>>
  /\ UNCHANGED <<exportVars, coverVars, appVars, pipeVars, trace>>

_parse_text ==
  /\ pc = "call" /\ Route(path) = "text"
  /\ Split("text", SplitChunks(file.text))

_parse_html ==
  /\ pc = "call" /\ Route(path) = "html"
  /\ Split("html", SplitChunks(_html_to_text(file.text)))

_parse_zip ==
  /\ pc = "call" /\ Route(path) = "zip"
  /\ IF file.damaged THEN Raised("zip", TRUE, "library_error")
     ELSE LET cs == ZipChunks(file.entries)
          IN  IF ChunkOutputs(cs) = <<>>
                THEN Raised("zip", TRUE, "zip_needs_manuscript_file")
                ELSE Split("zip", cs)

_parse_rtf ==
  /\ pc = "call" /\ Route(path) = "rtf"
  /\ Split("rtf", SplitChunks(_rtf_to_text(file.text)))

_parse_pdf ==
  /\ pc = "call" /\ Route(path) = "pdf"
  /\ IF file.damaged THEN Raised("pdf", TRUE, "library_error")
     ELSE LET raw == PdfRaw(file.parts)
          IN  IF raw = <<>> THEN Raised("pdf", TRUE, "pdf_no_text")
              ELSE Split("pdf", SplitChunks(raw))

_parse_epub ==
  /\ pc = "call" /\ Route(path) = "epub"
  /\ IF file.damaged THEN Raised("epub", TRUE, "library_error")
     ELSE LET cs == EpubChunks(file.parts)
          IN  IF ChunkOutputs(cs) = <<>> THEN Raised("epub", TRUE, "epub_no_content")
              ELSE Split("epub", cs)

RaiseDeprecated ==
  /\ pc = "call" /\ Route(path) = "mobi"
  /\ Raised("none", FALSE, "mobi_deprecated")

RaisePassThrough ==
  /\ pc = "call" /\ Route(path) = "kpf"
  /\ Raised("none", FALSE, "kpf_pass_through")

RaiseUnsupported ==
  /\ pc = "call" /\ Route(path) = "unsupported"
  /\ Raised("none", FALSE, "unsupported_type")

\* the end of parse_manuscript without the test for an empty list
AssembleWithoutEmptyCheck ==
  /\ pc = "classify"
  /\ pc' = "returned"
  /\ result' = [title |-> strip(title), author |-> strip(author),
                blocks |-> _classify_blocks(lines)]
  /\ UNCHANGED <<path, title, author, file, extractor, fileRead, chunks, lines, error,
                 line, heading>>
  /\ UNCHANGED otherVars

\* the end of parse_manuscript: classify, refuse an empty list, build the
\* Manuscript
Assemble ==
  /\ pc = "classify"
  /\ LET blocks == _classify_blocks(lines)
     IN  IF blocks = <<>>
           THEN /\ pc' = "raised"
                /\ error' = "appears_empty"
                /\ UNCHANGED result
           ELSE /\ pc' = "returned"
                /\ result' = [title |-> strip(title), author |-> strip(author),
                              blocks |-> blocks]
                /\ UNCHANGED error
  /\ UNCHANGED <<path, title, author, file, extractor, fileRead, chunks, lines, line,
                 heading>>
  /\ UNCHANGED otherVars

\* one call of the classifier on its own
Probe ==
  /\ pc = "probe"
  /\ pc' = "probed"
  /\ heading' = _looks_like_chapter_heading(line)
  /\ UNCHANGED <<path, title, author, file, extractor, fileRead, chunks, lines, result,
                 error, line>>
  /\ UNCHANGED otherVars

(***************************************************************************)
(* Calls of the cover validator and of the cover correction                *)
(***************************************************************************)
\* validate_cover_image(path, role) on an uploaded file
ValidateCover ==
  /\ cpc = "validate"
  /\ cpc' = "validated"
  /\ validation' = validate_cover_image(image)
  /\ UNCHANGED <<image, role, corrected, revalidation>>
  /\ UNCHANGED <<parserVars, appVars, pipeVars, dirs, trace, exportVars>>

\* auto_correct_cover_to_kdp(path, output_dir, role) on the same file
AutoCorrectCover ==
  /\ cpc = "validated"
  /\ \E st_size \in CorrectedFileSizes :
       corrected' = auto_correct_cover_to_kdp(image, st_size)
  /\ cpc' = IF corrected'.raised = "none" THEN "corrected" ELSE "correct_raised"
  /\ UNCHANGED <<image, role, validation, revalidation>>
  /\ UNCHANGED <<parserVars, appVars, pipeVars, dirs, trace, exportVars>>

\* validate_cover_image on the file the correction wrote
RevalidateCover ==
  /\ cpc = "corrected"
  /\ cpc' = "revalidated"
  /\ revalidation' = validate_cover_image(corrected.out)
  /\ UNCHANGED <<image, role, validation, corrected>>
  /\ UNCHANGED <<parserVars, appVars, pipeVars, dirs, trace, exportVars>>

(***************************************************************************)
(* create_production_package                                               *)
(***************************************************************************)
\* the KPF branch: copy the source, write the manifest and the reports,
\* pack the archive and return
CopyThrough ==
  /\ ppc = "start"
  /\ IsKpfSource(package.manuscript_path)
  /\ archive' = [made |-> TRUE,
                 files |-> {<<"copy", "source">>} \cup ReportFiles(package),
                 source |-> package.file,
                 source_name |-> PathName(package.manuscript_path)]
  /\ trace' = trace \o <<Event("copy", "", "manuscript", TRUE),
                         Event("make_archive", "", "", TRUE)>>
  /\ ppc' = "returned"
  /\ UNCHANGED <<exportVars, parserVars, coverVars, appVars, package, dirs>>

\* every other source: the call of parse_manuscript
CallParse ==
  /\ ppc = "start"
  /\ ~IsKpfSource(package.manuscript_path)
  /\ pc' = "call"
  /\ path' = package.manuscript_path
  /\ file' = package.file
  /\ title' = package.title
  /\ author' = package.author
  /\ trace' = trace \o <<Event("parse_manuscript", "", "manuscript", TRUE)>>
  /\ ppc' = "parsing"
  /\ UNCHANGED <<extractor, fileRead, chunks, lines, result, error, line, heading>>
  /\ UNCHANGED <<exportVars, coverVars, appVars, package, archive, dirs>>

\* parse_manuscript returned: one export for each selected profile, the
\* manifest, the reports and the archive
ExportProfiles ==
  /\ ppc = "parsing"
  /\ pc = "returned"
  /\ LET selected == SelectedProfiles(package.profile_keys)
     IN  /\ trace' = trace \o ExportEvents(selected)
                           \o <<Event("make_archive", "", "", TRUE)>>
         /\ archive' = [made |-> TRUE,
                        files |-> ExportFiles(selected) \cup ReportFiles(package),
                        source |-> NoFile,
                        source_name |-> <<>>]
  /\ ppc' = "returned"
  /\ UNCHANGED <<exportVars, parserVars, coverVars, appVars, package, dirs>>

\* parse_manuscript raised: the exception leaves create_production_package
PackageRaises ==
  /\ ppc = "parsing"
  /\ pc = "raised"
  /\ ppc' = "raised"
  /\ UNCHANGED <<exportVars, parserVars, coverVars, appVars, package, archive, dirs, trace>>

(***************************************************************************)
(* format_manuscript                                                       *)
(***************************************************************************)
ManuscriptName == secure_filename(request.manuscript)

ManuscriptExt == lower(PathSuffix(ManuscriptName))

FormatRefused ==
  \/ request.manuscript = <<>>
  \/ ManuscriptExt = MobiSuffix
  \/ ManuscriptExt \notin ALLOWED_MANUSCRIPT_EXT

\* the three early returns, before any directory is made
FormatRefuse ==
  /\ apc = "format"
  /\ FormatRefused
  /\ response' = Response("400",
                          IF request.manuscript = <<>> THEN "no_manuscript"
                          ELSE IF ManuscriptExt = MobiSuffix THEN "mobi_deprecated"
                          ELSE "unsupported_type")
  /\ apc' = "done"
  /\ UNCHANGED <<exportVars, parserVars, coverVars, pipeVars, request, exc, front_cover,
                 back_cover, data, dirs, trace>>

\* the with statement is entered and the manuscript saved
FormatOpenWorkspace ==
  /\ apc = "format"
  /\ ~FormatRefused
  /\ dirs' = dirs \cup {"ebook_format_"}
  /\ trace' = trace \o <<Event("mkdtemp", "", "ebook_format_", TRUE),
                         Event("save", "", "manuscript", TRUE)>>
  /\ apc' = "front"
  /\ UNCHANGED <<exportVars, parserVars, coverVars, pipeVars, request, response, exc, front_cover,
                 back_cover, data>>

\* _save_optional_image(front_cover, tmp_dir, "front", auto_fix_covers)
SaveFrontCover ==
  /\ apc = "front"
  /\ \E st_size \in CorrectedFileSizes :
       LET r == _save_optional_image(request.front_cover, "front",
                                     request.auto_fix_covers, st_size)
       IN  /\ trace' = trace \o r.events
           /\ IF r.raised = "none"
                THEN /\ front_cover' = r.path
                     /\ apc' = "back"
                     /\ UNCHANGED exc
                ELSE /\ exc' = [class |-> r.raised, error |-> r.error]
                     /\ apc' = "unwind"
                     /\ UNCHANGED front_cover
  /\ UNCHANGED <<exportVars, parserVars, coverVars, pipeVars, request, response, back_cover, data,
                 dirs>>

\* _save_optional_image(back_cover, tmp_dir, "back", auto_fix_covers)
SaveBackCover ==
  /\ apc = "back"
  /\ \E st_size \in CorrectedFileSizes :
       LET r == _save_optional_image(request.back_cover, "back",
                                     request.auto_fix_covers, st_size)
       IN  /\ trace' = trace \o r.events
           /\ IF r.raised = "none"
                THEN /\ back_cover' = r.path
                     /\ apc' = "package"
                     /\ UNCHANGED exc
                ELSE /\ exc' = [class |-> r.raised, error |-> r.error]
                     /\ apc' = "unwind"
                     /\ UNCHANGED back_cover
  /\ UNCHANGED <<exportVars, parserVars, coverVars, pipeVars, request, response, front_cover, data,
                 dirs>>

\* the call of create_production_package with the two cover paths
FormatCallPackage ==
  /\ apc = "package"
  /\ package' = Package(ManuscriptName, request.file,
                        strip(IF request.title # <<>> THEN request.title
                              ELSE PathStem(ManuscriptName)),
                        strip(IF request.author # <<>> THEN request.author
                              ELSE UnknownAuthor),
                        request.profile_keys, front_cover, back_cover,
                        front_cover # "None" \/ back_cover # "None")
  /\ ppc' = "start"
  /\ trace' = trace \o <<Event("create_production_package", "", "", TRUE)>>
  /\ apc' = "packaging"
  /\ UNCHANGED <<exportVars, parserVars, coverVars, archive, request, response, exc, front_cover,
                 back_cover, data, dirs>>

\* create_production_package returned: archive_path.read_bytes()
FormatReadArchive ==
  /\ apc = "packaging"
  /\ ppc = "returned"
  /\ data' = "archive"
  /\ trace' = trace \o <<Event("read_bytes", "", "archive", TRUE)>>
  /\ apc' = "leave"
  /\ UNCHANGED <<exportVars, parserVars, coverVars, pipeVars, request, response, exc, front_cover,
                 back_cover, dirs>>

\* create_production_package raised
FormatPackageRaised ==
  /\ apc = "packaging"
  /\ ppc = "raised"
  /\ exc' = [class |-> ErrorClass(error), error |-> error]
  /\ apc' = "unwind"
  /\ UNCHANGED <<exportVars, parserVars, coverVars, pipeVars, request, response, front_cover,
                 back_cover, data, dirs, trace>>

\* the with statement is left at its end, then send_file
FormatRespond ==
  /\ apc = "leave"
  /\ dirs' = dirs \ {"ebook_format_"}
  /\ trace' = trace \o <<Event("rmtree", "", "ebook_format_", TRUE),
                         Event("send_file", "", "archive", TRUE)>>
  /\ response' = Response("200", "none")
  /\ apc' = "done"
  /\ UNCHANGED <<exportVars, parserVars, coverVars, pipeVars, request, exc, front_cover,
                 back_cover, data>>

\* the mutation of FormatUnwind that leaves the directory behind
FormatUnwindKeepsWorkspace ==
  /\ apc = "unwind"
  /\ response' = Response(FormatErrorStatus(exc.class), exc.error)
  /\ apc' = "done"
  /\ UNCHANGED <<exportVars, parserVars, coverVars, pipeVars, request, exc, front_cover,
                 back_cover, data, dirs, trace>>

\* the with statement is left by an exception, then the except clauses
FormatUnwind ==
  /\ apc = "unwind"
  /\ dirs' = dirs \ {"ebook_format_"}
  /\ trace' = trace \o <<Event("rmtree", "", "ebook_format_", TRUE)>>
  /\ response' = Response(FormatErrorStatus(exc.class), exc.error)
  /\ apc' = "done"
  /\ UNCHANGED <<exportVars, parserVars, coverVars, pipeVars, request, exc, front_cover,
                 back_cover, data>>

(***************************************************************************)
(* preview_cover, for the role "front"                                     *)
(***************************************************************************)
PreviewRefused ==
  \/ request.front_cover.filename = <<>>
  \/ lower(PathSuffix(secure_filename(request.front_cover.filename)))
       \notin ALLOWED_IMAGE_EXT

\* the two early returns, before any directory is made
PreviewRefuse ==
  /\ apc = "preview"
  /\ PreviewRefused
  /\ response' = Response("400",
                          IF request.front_cover.filename = <<>> THEN "no_cover"
                          ELSE "cover_type")
  /\ apc' = "done"
  /\ UNCHANGED <<exportVars, parserVars, coverVars, pipeVars, request, exc, front_cover,
                 back_cover, data, dirs, trace>>

\* the with statement is entered and the upload saved
PreviewOpenWorkspace ==
  /\ apc = "preview"
  /\ ~PreviewRefused
  /\ dirs' = dirs \cup {"cover_preview_"}
  /\ trace' = trace \o <<Event("mkdtemp", "", "cover_preview_", TRUE),
                         Event("save", "front", "original", TRUE)>>
  /\ apc' = "preview_cover"
  /\ UNCHANGED <<exportVars, parserVars, coverVars, pipeVars, request, response, exc, front_cover,
                 back_cover, data>>

\* the body of the with statement: validate, correct and validate again if
\* asked to, then either the early return or final_path.read_bytes()
PreviewCover ==
  /\ apc = "preview_cover"
  /\ \E st_size \in CorrectedFileSizes :
       LET first == validate_cover_image(request.front_cover.content)
           fix   == auto_correct_cover_to_kdp(request.front_cover.content, st_size)
           again == validate_cover_image(fix.out)
           e1    == <<Event("validate", "front", "original", first.valid)>>
           e2    == e1 \o <<Event("auto_correct", "front", "original",
                                  fix.raised = "none")>>
           e3    == e2 \o <<Event("validate", "front", "corrected", again.valid)>>
           read  == <<Event("read_bytes", "", "preview", TRUE)>>
       IN  IF first.valid \/ ~request.auto_fix_covers
             THEN /\ trace' = trace \o e1 \o read
                  /\ data' = "preview"
                  /\ front_cover' = "original"
                  /\ apc' = "preview_leave"
                  /\ UNCHANGED exc
           ELSE IF fix.raised # "none"
             THEN /\ trace' = trace \o e2
                  /\ exc' = [class |-> fix.raised, error |-> fix.raised]
                  /\ apc' = "preview_unwind"
                  /\ UNCHANGED <<data, front_cover>>
           ELSE IF ~again.valid
             THEN /\ trace' = trace \o e3
                  /\ data' = "correction_failed"
                  /\ apc' = "preview_leave"
                  /\ UNCHANGED <<exc, front_cover>>
           ELSE /\ trace' = trace \o e3 \o read
                /\ data' = "preview"
                /\ front_cover' = "corrected"
                /\ apc' = "preview_leave"
                /\ UNCHANGED exc
  /\ UNCHANGED <<exportVars, parserVars, coverVars, pipeVars, request, response, back_cover, dirs>>

\* the with statement is left by a return or at its end
PreviewRespond ==
  /\ apc = "preview_leave"
  /\ dirs' = dirs \ {"cover_preview_"}
  /\ trace' = trace \o <<Event("rmtree", "", "cover_preview_", TRUE)>>
  /\ response' = IF data = "preview" THEN Response("200", "none")
                 ELSE Response("400", "cover_correction_failed")
  /\ apc' = "done"
  /\ UNCHANGED <<exportVars, parserVars, coverVars, pipeVars, request, exc, front_cover,
                 back_cover, data>>

\* the with statement is left by an exception, which no clause catches
PreviewUnwind ==
  /\ apc = "preview_unwind"
  /\ dirs' = dirs \ {"cover_preview_"}
  /\ trace' = trace \o <<Event("rmtree", "", "cover_preview_", TRUE)>>
  /\ response' = Response("500", exc.error)
  /\ apc' = "done"
  /\ UNCHANGED <<exportVars, parserVars, coverVars, pipeVars, request, exc, front_cover,
                 back_cover, data>>

(***************************************************************************)
(* A call of the chapter grouping                                          *)
(***************************************************************************)
GroupBlocks ==
  /\ gpc = "group"
  /\ gpc' = "grouped"
  /\ chapter_buckets' = _group_blocks_by_chapter(manuscript_blocks)
  /\ UNCHANGED <<parserVars, coverVars, appVars, pipeVars, dirs, trace,
                 manuscript_blocks>>

Next ==
  \/ _parse_docx
  \/ _parse_doc
  \/ DocConvert
  \/ DocLeave
  \/ _parse_text
  \/ _parse_html
  \/ _parse_zip
  \/ _parse_rtf
  \/ _parse_pdf
  \/ _parse_epub
  \/ RaiseDeprecated
  \/ RaisePassThrough
  \/ RaiseUnsupported
  \/ Assemble
  \/ Probe
  \/ ValidateCover
  \/ AutoCorrectCover
  \/ RevalidateCover
  \/ CopyThrough
  \/ CallParse
  \/ ExportProfiles
  \/ PackageRaises
  \/ FormatRefuse
  \/ FormatOpenWorkspace
  \/ SaveFrontCover
  \/ SaveBackCover
  \/ FormatCallPackage
  \/ FormatReadArchive
  \/ FormatPackageRaised
  \/ FormatRespond
  \/ FormatUnwind
  \/ PreviewRefuse
  \/ PreviewOpenWorkspace
  \/ PreviewCover
  \/ PreviewRespond
  \/ PreviewUnwind
  \/ GroupBlocks

Spec == Init /\ [][Next]_vars

(***************************************************************************)
(* The rules of the heading classifier, each stated on its own             *)
(***************************************************************************)
\* the number of whitespace-separated words: the places where a word starts
WordCount(ln) ==
  Cardinality({i \in DOMAIN ln : ~IsSpace(ln[i]) /\ (i = 1 \/ IsSpace(ln[i - 1]))})

\* chapter, book or part in any letter case, then whitespace, then a token
\* of letters, digits or underscores (the token class [\w\d] of the pattern)
StartsWithKeywordToken(ln) ==
  \E k \in Keywords : \E n \in 1..Len(ln) :
    /\ Len(ln) > Len(k) + n
    /\ \A i \in 1..Len(k) : LowerChar(ln[i]) = k[i]
    /\ \A i \in (Len(k) + 1)..(Len(k) + n) : IsSpace(ln[i])
    /\ IsWordChar(ln[Len(k) + n + 1])

MoreThanNineWords(ln) == WordCount(ln) > 9

\* entirely upper-case (some cased letter, none lower-case), at most 80 long
ShortUpperCase(ln) ==
  /\ Len(ln) <= 80
  /\ \E i \in DOMAIN ln : IsUpperChar(ln[i])
  /\ ~ \E i \in DOMAIN ln : IsLowerChar(ln[i])

\* one to three digits, one of . : space -, whitespace, a word character
StartsWithNumberLabel(ln) ==
  LET d == CountLeading(Digits, ln, 1)
  IN  /\ d \in 1..3
      /\ \E n \in 1..Len(ln) :
           /\ Len(ln) > d + 1 + n
           /\ ln[d + 1] \in {".", ":", " ", "-"}
           /\ \A i \in (d + 2)..(d + 1 + n) : IsSpace(ln[i])
           /\ IsWordChar(ln[d + n + 2])

\* C1: the classifier returns the result of the ordered decision list, first
\* match wins: keyword prefix -> heading; more than nine words -> not;
\* short upper-case -> heading; number label -> heading; otherwise not.
C1_DecisionList ==
  pc = "probed" =>
    heading = (IF StartsWithKeywordToken(line) THEN TRUE
               ELSE IF MoreThanNineWords(line) THEN FALSE
               ELSE IF ShortUpperCase(line) THEN TRUE
               ELSE IF StartsWithNumberLabel(line) THEN TRUE
               ELSE FALSE)

\* a line that only the fourth rule accepts has been classified a heading
C1_Witness ==
  /\ pc = "probed"
  /\ ~StartsWithKeywordToken(line) /\ ~MoreThanNineWords(line)
  /\ ~ShortUpperCase(line) /\ StartsWithNumberLabel(line)
  /\ heading = TRUE

\* C2 as stated: every line of more than nine words is not a heading.
C2_LongLineNeverHeading ==
  (pc = "probed" /\ MoreThanNineWords(line)) => heading = FALSE

\* C2 amended: a line of more than nine words that does not start with the
\* chapter/book/part prefix is not a heading, fully upper-case or not.
C2_LongLineWithoutKeywordNotHeading ==
  (pc = "probed" /\ MoreThanNineWords(line) /\ ~StartsWithKeywordToken(line))
    => heading = FALSE

\* a short, fully upper-case line of more than nine words was refused
C2_Witness ==
  /\ pc = "probed"
  /\ MoreThanNineWords(line) /\ ShortUpperCase(line)
  /\ ~StartsWithKeywordToken(line)
  /\ heading = FALSE

(***************************************************************************)
(* The blocks of a chunk in the returned Manuscript                        *)
(***************************************************************************)
\* the extractors that run the splitter
SplitterExtractors == {"text", "html", "rtf", "pdf", "zip", "epub"}

RECURSIVE SumLen(_, _)
SumLen(cs, n) == IF n = 0 THEN 0 ELSE Len(cs[n].out) + SumLen(cs, n - 1)

\* the blocks of the Manuscript that the i-th kept chunk gave rise to
BlocksOfChunk(i) ==
  SubSeq(result.blocks, SumLen(chunks, i - 1) + 1, SumLen(chunks, i))

Block(kind, text) == [kind |-> kind, text |-> text]

HeadingFirst(c) == _looks_like_chapter_heading(c.lines[1])

\* C3: a chunk whose first surviving line is a heading and that has more
\* lines yields a chapter block for the first line, then exactly one
\* paragraph block holding the other lines joined by single spaces,
\* whatever those lines are.
C3_HeadingChunkYieldsChapterThenParagraph ==
  (pc = "returned" /\ extractor \in SplitterExtractors) =>
    \A i \in DOMAIN chunks :
      (HeadingFirst(chunks[i]) /\ Len(chunks[i].lines) > 1) =>
        BlocksOfChunk(i) = <<Block("chapter", chunks[i].lines[1]),
                             Block("paragraph", join(<<" ">>, Tail(chunks[i].lines)))>>

\* C4: a chunk whose first surviving line is not a heading yields exactly
\* one block, a paragraph, holding all its lines joined by single spaces.
C4_PlainChunkYieldsOneParagraph ==
  (pc = "returned" /\ extractor \in SplitterExtractors) =>
    \A i \in DOMAIN chunks :
      ~HeadingFirst(chunks[i]) =>
        BlocksOfChunk(i) = <<Block("paragraph", join(<<" ">>, chunks[i].lines))>>

\* C5 as stated: for plain text of two or more paragraphs, the number of
\* blocks is the number of non-empty chunks.
C5_BlockCountIsChunkCount ==
  (pc = "returned" /\ extractor = "text" /\ Len(chunks) >= 2) =>
    Len(result.blocks) = Len(chunks)

\* the chunks that start with a heading and go on
HeadedChunks == {i \in DOMAIN chunks : HeadingFirst(chunks[i]) /\ Len(chunks[i].lines) > 1}

\* C5 amended: for plain text of two or more paragraphs, the number of
\* blocks is the number of non-empty chunks plus the number of those chunks
\* that start with a heading and have further lines.
C5_BlockCountIsChunksPlusHeaded ==
  (pc = "returned" /\ extractor = "text" /\ Len(chunks) >= 2) =>
    Len(result.blocks) = Len(chunks) + Cardinality(HeadedChunks)

\* a text of two chunks, one of them a heading with lines after it
C5_Witness ==
  /\ pc = "returned" /\ extractor = "text"
  /\ Len(chunks) >= 2 /\ HeadedChunks # {}
  /\ Len(result.blocks) = 3

\* no whitespace at either end and no two whitespace characters in a row
Normalized(s) ==
  /\ s # <<>> => (~IsSpace(s[1]) /\ ~IsSpace(s[Len(s)]))
  /\ \A i \in 1..(Len(s) - 1) : ~(IsSpace(s[i]) /\ IsSpace(s[i + 1]))

\* C6: the text of every block of a returned Manuscript is normalized, for
\* the paragraphs of a structured document as for the chunks of a text.
C6_BlockTextNormalized ==
  pc = "returned" => \A i \in DOMAIN result.blocks : Normalized(result.blocks[i].text)

\* a structured document with a paragraph that was not normalized has been
\* returned
C6_Witness ==
  /\ pc = "returned" /\ extractor = "docx"
  /\ \E i \in DOMAIN file.parts : ~Normalized(file.parts[i])

\* C7: a Manuscript that is returned has blocks; a call whose extraction
\* and classification gave no block has ended with an error.
C7_NeverEmptyManuscript ==
  /\ pc = "returned" => (result.blocks # <<>> /\ error = "none")
  /\ (pc \in {"returned", "raised"} /\ lines = <<>>) => (pc = "raised" /\ error # "none")

\* a text that holds no line was refused as empty
C7_Witness ==
  /\ pc = "raised" /\ error = "appears_empty"
  /\ extractor = "text" /\ result = NoManuscript

(***************************************************************************)
(* Dispatch on the extension                                               *)
(***************************************************************************)
\* the extension of the path, lower-cased
LowerExt == lower(PathSuffix(path))

\* the extensions that have an extractor, each with the extractor it has
ExtractorOf ==
  {<<<<".", "d", "o", "c", "x">>, "docx">>, <<<<".", "d", "o", "c">>, "doc">>, <<<<".", "t", "x", "t">>, "text">>, <<<<".", "m", "d">>, "text">>,
   <<<<".", "h", "t", "m", "l">>, "html">>, <<<<".", "h", "t", "m">>, "html">>, <<<<".", "z", "i", "p">>, "zip">>, <<<<".", "r", "t", "f">>, "rtf">>,
   <<<<".", "p", "d", "f">>, "pdf">>, <<<<".", "e", "p", "u", "b">>, "epub">>}

SupportedExts == {x[1] : x \in ExtractorOf}

\* the call ended with this error, no extractor ran and the file was not read
RejectedWith(err) ==
  pc = "raised" /\ error = err /\ extractor = "none" /\ ~fileRead

\* C8: the outcome is chosen by the lower-cased extension alone: .mobi is
\* refused as deprecated, .kpf as pass-through, an extension outside the
\* supported set as unsupported, by three different errors, no extractor
\* having run and the file unread; a supported extension, in any letter
\* case, runs its own extractor.
C8_OutcomeChosenByLowerCasedExtension ==
  pc \in {"classify", "returned", "raised"} =>
    /\ LowerExt = <<".", "m", "o", "b", "i">> => RejectedWith("mobi_deprecated")
    /\ LowerExt = <<".", "k", "p", "f">> => RejectedWith("kpf_pass_through")
    /\ LowerExt \notin SupportedExts \cup {<<".", "m", "o", "b", "i">>, <<".", "k", "p", "f">>}
         => RejectedWith("unsupported_type")
    /\ \A x \in ExtractorOf : LowerExt = x[1] => extractor = x[2]
    /\ Cardinality({"mobi_deprecated", "kpf_pass_through", "unsupported_type"}) = 3

\* a .MOBI path, in upper case, was refused as deprecated without a read
C8_Witness ==
  /\ RejectedWith("mobi_deprecated")
  /\ PathSuffix(path) = <<".", "M", "O", "B", "I">>

(***************************************************************************)
(* Archives                                                                *)
(***************************************************************************)
\* an entry that is no directory and has one of the inner extensions
Eligible(e) ==
  /\ ~(e.name # <<>> /\ e.name[Len(e.name)] = "/")
  /\ lower(PathSuffix(e.name)) \in InnerExts

\* the lines extracted from one entry: its bytes converted as its extension
\* asks, then split
EntryLines(e) ==
  LET ext == lower(PathSuffix(e.name))
  IN  IF ~Eligible(e) THEN <<>>
      ELSE IF ext \in HtmlExts THEN _split_text_to_blocks(_html_to_text(e.data))
      ELSE IF ext = <<".", "r", "t", "f">> THEN _split_text_to_blocks(_rtf_to_text(e.data))
      ELSE _split_text_to_blocks(e.data)

\* the ways to put the entries of the archive in ascending order of name
AscendingOrders ==
  LET n == Len(file.entries)
  IN  {f \in [1..n -> 1..n] :
         /\ \A i, j \in 1..n : i # j => f[i] # f[j]
         /\ \A i \in 1..(n - 1) :
              ~StrLess(file.entries[f[i + 1]].name, file.entries[f[i]].name)}

\* C9: the lines extracted from an archive are the lines of its eligible
\* entries, one entry after the other in ascending order of name, so the
\* physical order of the entries does not matter and the others add nothing.
C9_ArchiveLinesInNameOrder ==
  (pc \in {"classify", "returned"} /\ extractor = "zip") =>
    \E f \in AscendingOrders :
      lines = Flatten([i \in DOMAIN file.entries |-> EntryLines(file.entries[f[i]])])

\* C10: an archive gets the error that asks for an HTML, TXT, MD or RTF
\* file exactly when it has no eligible entry.
C10_ZipErrorIffNoEligibleEntry ==
  (pc \in {"classify", "returned", "raised"} /\ LowerExt = <<".", "z", "i", "p">> /\ ~file.damaged) =>
    ((error = "zip_needs_manuscript_file")
       <=> ~ \E i \in DOMAIN file.entries : Eligible(file.entries[i]))

(***************************************************************************)
(* The cover validator and the cover correction                            *)
(***************************************************************************)
\* the cover calls that have returned a result
CoverValidated == cpc \in {"validated", "corrected", "correct_raised", "revalidated"}

\* the results validate_cover_image has returned so far
ReturnedValidations ==
  (IF CoverValidated THEN {validation} ELSE {})
  \cup (IF cpc = "revalidated" THEN {revalidation} ELSE {})

\* C11: in every result validate_cover_image returns, for a decodable file
\* or not, valid is TRUE exactly when the errors list is empty, whatever the
\* warnings list holds.
C11_ValidIffNoErrors ==
  \A r \in ReturnedValidations : r.valid <=> (r.errors = <<>>)

\* a file with warnings and no error has been validated
C11_Witness ==
  /\ cpc = "validated"
  /\ validation.errors = <<>>
  /\ validation.warnings # <<>>

\* the errors and the warnings in the order validate_cover_image appends them
ErrorOrder ==
  <<"format", "too_small", "too_large", "ratio", "dpi_missing", "dpi_value",
    "file_size", "color_mode">>

WarningOrder == <<"ideal_dimensions", "hd_height">>

\* the rule each error and each warning stands for, stated on the file alone
RuleViolated(kind, img) ==
  LET w == img.size[1]
      h == img.size[2]
  IN  CASE kind = "format" -> ~(img.format = "JPEG" \/ img.format = "TIFF")
        [] kind = "too_small" -> w < 625 \/ h < 1000
        [] kind = "too_large" -> w > 10000 \/ h > 10000
        [] kind = "ratio" -> w = 0 \/ 10 * h < 16 * w
        [] kind = "dpi_missing" -> img.dpi = <<>>
        [] kind = "dpi_value" ->
             /\ img.dpi # <<>>
             /\ \E i \in {1, 2} : img.dpi[i] + 1 < 72 \/ img.dpi[i] > 72 + 1
        [] kind = "file_size" -> img.st_size >= 50 * 1024 * 1024
        [] kind = "color_mode" -> img.mode # "RGB"
        [] kind = "ideal_dimensions" -> ~(w = 1600 /\ h = 2560)
        [] kind = "hd_height" -> h < 2500

\* C12: for a decodable file every check runs: each error is in the result
\* exactly when its own rule is violated, whatever the other checks found,
\* the errors are in the fixed order, and each of the two warnings is there
\* exactly when its rule applies.
C12_EveryCheckRuns ==
  (CoverValidated /\ image.identified) =>
    /\ validation.errors = SelectSeq(ErrorOrder, LAMBDA k : RuleViolated(k, image))
    /\ validation.warnings = SelectSeq(WarningOrder, LAMBDA k : RuleViolated(k, image))

\* a file that breaks six rules at once has been validated
C12_Witness ==
  /\ cpc = "validated"
  /\ image.identified
  /\ Len(validation.errors) >= 6
  /\ validation.warnings # <<>>

Has(seq, item) == \E i \in DOMAIN seq : seq[i] = item

\* C13: a file of 625x1000 gets neither size error, one of 624x1000 gets the
\* too-small error, one of 1600x2560 gets no warning.
C13_SizeBoundaries ==
  (CoverValidated /\ image.identified) =>
    /\ image.size = <<625, 1000>> =>
         ~Has(validation.errors, "too_small") /\ ~Has(validation.errors, "too_large")
    /\ image.size = <<624, 1000>> => Has(validation.errors, "too_small")
    /\ image.size = <<1600, 2560>> => validation.warnings = <<>>

\* a file of exactly the minimum size has been validated
C13_Witness ==
  /\ cpc = "validated"
  /\ image.identified
  /\ image.size = <<625, 1000>>
  /\ validation.warnings = <<"ideal_dimensions", "hd_height">>

\* the file of the scenario: a JPEG, RGB, of 2MB, validated
ScenarioValidated(size, dpi) ==
  /\ CoverValidated
  /\ image = ImageFile(TRUE, "JPEG", "RGB", size, <<dpi, dpi>>, 2 * 1024 * 1024)

\* C14, as stated: the JPEG of 800x1200, RGB, 72 DPI, 2MB is valid with no
\* error, and the same file at 96 DPI has the DPI-value error alone.
C14_Jpeg800x1200Passes ==
  /\ ScenarioValidated(<<800, 1200>>, 72) =>
       validation.valid /\ validation.errors = <<>>
  /\ ScenarioValidated(<<800, 1200>>, 96) => validation.errors = <<"dpi_value">>

\* C14, amended: the JPEG of 800x1280 (ratio 1.6), RGB, 72 DPI, 2MB is valid
\* with no error and at 96 DPI has the DPI-value error alone; the one of
\* 800x1200 (ratio 1.5) has the ratio error, alone at 72 DPI and with the
\* DPI-value error at 96 DPI.
C14_Jpeg800x1280Passes ==
  /\ ScenarioValidated(<<800, 1280>>, 72) =>
       validation.valid /\ validation.errors = <<>>
  /\ ScenarioValidated(<<800, 1280>>, 96) => validation.errors = <<"dpi_value">>
  /\ ScenarioValidated(<<800, 1200>>, 72) =>
       ~validation.valid /\ validation.errors = <<"ratio">>
  /\ ScenarioValidated(<<800, 1200>>, 96) =>
       validation.errors = <<"ratio", "dpi_value">>

\* the 800x1280 JPEG at 96 DPI has been validated
C14_Witness == cpc = "validated" /\ ScenarioValidated(<<800, 1280>>, 96)

\* C15: for every decodable file the correction writes a file, and the
\* validation of that file is valid.
C15_CorrectedCoverIsValid ==
  image.identified =>
    /\ cpc # "correct_raised"
    /\ cpc = "revalidated" => revalidation.valid

\* C16: the fitted artwork is never larger than the file's image, fits in
\* 1600x2560, and has the file's own size when that already fits.
C16_CorrectionNeverScalesUp ==
  cpc \in {"corrected", "revalidated"} =>
    /\ corrected.fitted[1] <= image.size[1]
    /\ corrected.fitted[2] <= image.size[2]
    /\ corrected.fitted[1] <= 1600
    /\ corrected.fitted[2] <= 2560
    /\ (image.size[1] <= 1600 /\ image.size[2] <= 2560) =>
         corrected.fitted = image.size

\* C17: for a file no decoder identifies validate_cover_image returns a
\* result that is not valid, has one error and no warning, and has none of
\* the measured fields.
C17_UndecodableResult ==
  (CoverValidated /\ ~image.identified) =>
    /\ ~validation.valid
    /\ Len(validation.errors) = 1
    /\ validation.warnings = <<>>
    /\ validation.width = <<>>
    /\ validation.height = <<>>
    /\ validation.fmt = <<>>
    /\ validation.mode = <<>>
    /\ validation.dpi = <<>>
    /\ validation.size_mb = <<>>

\* a file no decoder identifies has been validated
C17_Witness ==
  /\ cpc = "validated"
  /\ ~image.identified
  /\ validation.errors = <<"unreadable">>

(***************************************************************************)
(* The web handlers and the packaging pipeline                             *)
(***************************************************************************)
\* the places of the trace where an operation was made
OpIndexes(op) == {i \in DOMAIN trace : trace[i].op = op}

\* the validations and corrections of the cover of one role, in their order
CoverSteps(r) ==
  SelectSeq(trace, LAMBDA e : e.role = r /\ e.op \in {"validate", "auto_correct"})

\* the orders a cover may go through: validate; then, if that failed, the
\* correction; then, if that wrote a file, the validation of that file
StepOrders(r) ==
  {<<>>,
   <<Event("validate", r, "original", TRUE)>>,
   <<Event("validate", r, "original", FALSE)>>,
   <<Event("validate", r, "original", FALSE),
     Event("auto_correct", r, "original", FALSE)>>}
  \cup {<<Event("validate", r, "original", FALSE),
          Event("auto_correct", r, "original", TRUE),
          Event("validate", r, "corrected", ok)>> : ok \in BOOLEAN}

\* the path of the cover of a role in the call of create_production_package
HandedPath(r) == IF r = "front" THEN package.front_cover ELSE package.back_cover

UploadOf(r) == IF r = "front" THEN request.front_cover ELSE request.back_cover

\* C18: in a format request each cover is validated, then corrected only if
\* it is not valid and the correction is on, then validated again; a cover
\* path in the call of create_production_package is the file whose
\* validation came last and was valid; and after a cover that is not valid
\* with the correction off, or a corrected file that is not valid, the
\* request ends with its own error and create_production_package is not
\* called.
C18_CoversValidatedBeforePackaging ==
  request.handler = "format" =>
    \A r \in {"front", "back"} :
      LET steps == CoverSteps(r)
      IN  /\ steps \in StepOrders(r)
          /\ Len(steps) >= 2 => request.auto_fix_covers
          /\ OpIndexes("create_production_package") # {} =>
               /\ HandedPath(r) = "None" => UploadOf(r).filename = <<>>
               /\ HandedPath(r) # "None" =>
                    /\ steps # <<>>
                    /\ steps[Len(steps)] = Event("validate", r, HandedPath(r), TRUE)
          /\ steps = <<Event("validate", r, "original", FALSE)>> =>
               /\ ~request.auto_fix_covers
               /\ OpIndexes("create_production_package") = {}
               /\ apc = "done" => response = Response("400", "cover_invalid")
          /\ (Len(steps) = 3 /\ ~steps[3].ok) =>
               /\ OpIndexes("create_production_package") = {}
               /\ apc = "done" => response = Response("400", "cover_correction_failed")

\* a request with a corrected front cover and an original back cover has
\* been answered with the archive
C18_Witness ==
  /\ request.handler = "format"
  /\ apc = "done"
  /\ response.status = "200"
  /\ package.front_cover = "corrected"
  /\ package.back_cover = "original"

\* C19: when a handler is done no temporary directory is left, whatever the
\* way out; the directory of the document conversion is gone when
\* _parse_doc is left; and a directory is removed only after the bytes of
\* the response, or the lines of the converted document, were read.
C19_WorkspaceRemovedOnEveryExit ==
  /\ [](apc = "done" => dirs = {})
  /\ [](pc \in {"classify", "returned", "raised"} => "doc_convert_" \notin dirs)
  /\ [][/\ ("ebook_format_" \in dirs /\ "ebook_format_" \notin dirs'
              /\ response'.status = "200") => data = "archive"
        /\ ("cover_preview_" \in dirs /\ "cover_preview_" \notin dirs'
              /\ response'.status = "200") => data = "preview"
        /\ ("doc_convert_" \in dirs /\ "doc_convert_" \notin dirs'
              /\ pc' = "classify") => (pc = "doc_leave" /\ lines' = lines)]_vars

\* a request that made its directory has ended with an exception that is
\* not a ValueError
C19_Witness ==
  /\ apc = "done"
  /\ response.status = "500"
  /\ OpIndexes("mkdtemp") # {}
  /\ OpIndexes("rmtree") # {}

\* C20: for a .kpf source, in any letter case, create_production_package
\* copies the file and returns an archive, and parse_manuscript and the
\* exporters are never called, so the pass-through error of the parser is
\* never raised under the pipeline; for any other source parse_manuscript is
\* called before any exporter, and when it raises there is no export and no
\* archive.
C20_KpfCopiedOthersParsedFirst ==
  ppc # "idle" =>
    /\ error # "kpf_pass_through"
    /\ IF lower(PathSuffix(package.manuscript_path)) = <<".", "k", "p", "f">>
         THEN /\ OpIndexes("parse_manuscript") = {}
              /\ OpIndexes("export") = {}
              /\ pc = "idle"
              /\ ppc \in {"start", "returned"}
              /\ ppc = "returned" =>
                   /\ archive.made
                   /\ archive.source = package.file
                   /\ archive.source_name = PathName(package.manuscript_path)
         ELSE /\ \A i \in OpIndexes("export") :
                   \E j \in OpIndexes("parse_manuscript") : j < i
              /\ ppc = "returned" =>
                   /\ pc = "returned"
                   /\ OpIndexes("export") # {}
                   /\ archive.made
              /\ pc = "raised" =>
                   /\ OpIndexes("export") = {}
                   /\ ~archive.made
                   /\ ppc \in {"parsing", "raised"}

\* a source named m.Kpf has been copied through by a format request
C20_Witness ==
  /\ apc = "done"
  /\ ppc = "returned"
  /\ package.manuscript_path = <<"m", ".", "K", "p", "f">>
  /\ archive.made
  /\ archive.source = request.file

(***************************************************************************)
(* The chapter grouping                                                    *)
(***************************************************************************)
\* the paragraph texts from place i up to the next chapter block
RECURSIVE ParagraphRun(_, _)
ParagraphRun(bs, i) ==
  IF i > Len(bs) \/ bs[i].kind = "chapter" THEN <<>>
  ELSE <<bs[i].text>> \o ParagraphRun(bs, i + 1)

\* one bucket for each chapter block from place i on, with the paragraphs
\* that follow it
RECURSIVE ChapterBuckets(_, _)
ChapterBuckets(bs, i) ==
  IF i > Len(bs) THEN <<>>
  ELSE (IF bs[i].kind = "chapter"
          THEN <<[title |-> bs[i].text, paragraphs |-> ParagraphRun(bs, i + 1)]>>
          ELSE <<>>)
       \o ChapterBuckets(bs, i + 1)

\* C21: for a block list that is not empty the buckets are, in order, a
\* bucket titled 'Chapter 1' with the paragraphs before the first chapter if
\* the list starts with a paragraph, then one bucket for every chapter block,
\* also one followed by no paragraph, with the paragraphs up to the next
\* chapter: no block is lost.
C21_GroupingLosesNoBlock ==
  (gpc = "grouped" /\ manuscript_blocks # <<>>) =>
    chapter_buckets =
      (IF manuscript_blocks[1].kind = "paragraph"
         THEN <<[title |-> <<"C", "h", "a", "p", "t", "e", "r", " ", "1">>,
                 paragraphs |-> ParagraphRun(manuscript_blocks, 1)]>>
         ELSE <<>>)
      \o ChapterBuckets(manuscript_blocks, 1)

====
